---------------------------- MODULE Spec2Model ----------------------------
(***************************************************************************)
(* A model of rleveldb: the write-ahead log, the skip list and memtable,   *)
(* the block and table formats, the merging iterator and the DB engine's   *)
(* open / write / get paths.  Every operator is translated from the Rust   *)
(* source it names in MODEL_MAP.json.                                      *)
(*                                                                         *)
(* The module holds several specifications over one set of variables:      *)
(*   SpecLog    log.rs       LogWriter / LogReader                         *)
(*   SpecMem    memtable.rs  MemTable over skiplist.rs                     *)
(*   SpecBlock  block_builder.rs / block.rs / table.rs                     *)
(*   SpecMerge  merge.rs     MergingIterator                               *)
(*   Spec       db_impl.rs   LevelDB open / write / get / crash            *)
(* A specification leaves the variables of the other components at their   *)
(* initial value.                                                          *)
(***************************************************************************)
EXTENDS Integers, Sequences, FiniteSets, TLC

VARIABLES
    \* ---- log.rs
    logw,       \* the LogWriter: [file, current_block_offset]
    logrecs,    \* the records handed to add_record, in order (their lengths)
    logr,       \* the LogReader: [pos, blk_off], or NoReader before it is opened
    logout      \* the results of the read_record calls so far

logVars == <<logw, logrecs, logr, logout>>

VARIABLES
    \* ---- memtable.rs / skiplist.rs
    mem,        \* the MemTable: [table (the SkipList), memory_usage]
    memadded,   \* the entries handed to MemTable::add so far
    memget      \* the last MemTable::get: its lookup key and its result

memVars == <<mem, memadded, memget>>

VARIABLES
    \* ---- block_builder.rs / block.rs / table.rs / two_level_iterator.rs
    blk,        \* one block: [b (the BlockBuilder), stream, phase, it (the BlockIter), mode, target]
    table,      \* one table: [tb (the TableBuiler), stream, phase]
    titer       \* the table's iterator: [it (the TwoLevelIterator), mode, scan, target]

blockVars == <<blk, table, titer>>

VARIABLES
    \* ---- merge.rs
    merge,      \* the MergingIterator: [children, current, direction, st]
    mergeop     \* the last call on it: [op, valid, key] with the position before the call

mergeVars == <<merge, mergeop>>

VARIABLES
    \* ---- db_impl.rs
    db,         \* the process: DBImplInner with its VersionSet, Wal and live memtable
    disk,       \* the database directory: CURRENT, the manifest, the log files
    wr,         \* per thread, the write_inner call it is in
    dbget,      \* the last get: its key, the snapshot it took and what it returned
    dbhist      \* what has happened: calls counted, writes that returned Ok

dbVars == <<db, disk, wr, dbget, dbhist>>

VARIABLES
    \* ---- skiplist.rs, one inserting thread and one traversing thread
    sl,         \* the shared SkipList and the insert in progress: [list, pc, ...]
    slit        \* the traversing thread's SkipListIter and what it has visited

skipVars == <<sl, slit>>

VARIABLES
    \* ---- write_batch.rs
    wb          \* a WriteBatch: its rep, the calls that built it, the last result

VARIABLES
    \* ---- version_edit.rs
    ve          \* a VersionEdit built by its setters and its last round trip

VARIABLES
    \* ---- version_set.rs
    vs          \* a VersionSet, its MANIFEST files and the log_and_apply in progress

VARIABLES
    \* ---- db_impl.rs, the compaction thread
    wk          \* [pc of the worker, queue (messages in the channel), shutdown, calls]

VARIABLES
    \* ---- cmp.rs
    bwc         \* a call on the BitWiseComparator: [start, limit, op, out]

VARIABLES
    \* ---- filter.rs
    bloom       \* a BloomFilterPolicy: [bits_per_key, keys, overflow_checks, st, filter, probe]

VARIABLES
    \* ---- utils/cache.rs
    cache       \* a ShardLruCache: [capacity, shard_of, shards, op, calls]

VARIABLES
    \* ---- codec.rs
    dec         \* a decoder call of codec.rs: [data, op, res]

VARIABLES
    \* ---- db_impl.rs: DBImplInner::imm
    imm         \* the immutable memtable of the engine: [slot, res, flushes]

VARIABLES
    \* ---- table_cache.rs, a TableCache over a directory of table files
    tc          \* find_table calls on a TableCache: [ldb, sst, calls]

VARIABLES
    \* ---- version.rs / version_set.rs, a Version as VersionSet::finalize and the flush of a memtable see it
    ver         \* a Version and the calls made on it: [files, trigger, op, res]

\* the components after the engine, for the actions that leave them alone
restVars == <<skipVars, wb, ve, vs, wk, bwc, bloom, cache, dec, imm, tc, ver>>

coreVars == <<logVars, memVars, blockVars, mergeVars, dbVars>>

\* all the components but one
exceptSkip == <<coreVars, wb, ve, vs, wk, bwc, bloom, cache, dec, imm, tc, ver>>
exceptBatch == <<coreVars, skipVars, ve, vs, wk, bwc, bloom, cache, dec, imm, tc, ver>>
exceptEdit == <<coreVars, skipVars, wb, vs, wk, bwc, bloom, cache, dec, imm, tc, ver>>
exceptManifest == <<coreVars, skipVars, wb, ve, wk, bwc, bloom, cache, dec, imm, tc, ver>>
exceptWorker == <<coreVars, skipVars, wb, ve, vs, bwc, bloom, cache, dec, imm, tc, ver>>
exceptCmp == <<coreVars, skipVars, wb, ve, vs, wk, bloom, cache, dec, imm, tc, ver>>
exceptBloom == <<coreVars, skipVars, wb, ve, vs, wk, bwc, cache, dec, imm, tc, ver>>
exceptCache == <<coreVars, skipVars, wb, ve, vs, wk, bwc, bloom, dec, imm, tc, ver>>
exceptCodec == <<coreVars, skipVars, wb, ve, vs, wk, bwc, bloom, cache, imm, tc, ver>>
exceptImm == <<coreVars, skipVars, wb, ve, vs, wk, bwc, bloom, cache, dec, tc, ver>>
exceptDbImm == <<logVars, memVars, blockVars, mergeVars, skipVars, wb, ve, vs, wk, bwc, bloom, cache, dec, tc, ver>>
exceptTableCache == <<coreVars, skipVars, wb, ve, vs, wk, bwc, bloom, cache, dec, imm, ver>>
exceptVersion == <<coreVars, skipVars, wb, ve, vs, wk, bwc, bloom, cache, dec, imm, tc>>
exceptSkipMem == <<logVars, blockVars, mergeVars, dbVars, wb, ve, vs, wk, bwc, bloom, cache, dec, imm, tc, ver>>

vars == <<logw, logrecs, logr, logout, mem, memadded, memget, blk, table, titer,
          merge, mergeop, db, disk, wr, dbget, dbhist, sl, slit, wb, ve, vs, wk,
          bwc, bloom, cache, dec, imm, tc, ver>>

(***************************************************************************)
(* Helpers                                                                 *)
(***************************************************************************)
Min(a, b) == IF a < b THEN a ELSE b

Last(s) == s[Len(s)]

\* the element of a singleton set: Only({F(x) : x \in {e}}) is F(e) with e
\* evaluated once
Only(S) == CHOOSE x \in S : TRUE

\* Vec<u8>::cmp, slices of bytes compared lexicographically: -1, 0, 1
RECURSIVE BytesCmp(_, _)
BytesCmp(a, b) ==
    IF a = <<>> /\ b = <<>> THEN 0
    ELSE IF a = <<>> THEN -1
    ELSE IF b = <<>> THEN 1
    ELSE IF Head(a) < Head(b) THEN -1
    ELSE IF Head(a) > Head(b) THEN 1
    ELSE BytesCmp(Tail(a), Tail(b))

(***************************************************************************)
(* log.rs : the write-ahead log                                            *)
(*                                                                         *)
(* A file is a sequence of chunks, each the bytes of one append:           *)
(*   [k |-> "pad",  n]                 n zero bytes                        *)
(*   [k |-> "frag", ty, rec, from, n]  a 7-byte header (crc, length n,     *)
(*                                     type ty) and n payload bytes, the   *)
(*                                     bytes from..from+n-1 of record rec  *)
(* Offsets, lengths and the block arithmetic are the code's; the payload   *)
(* bytes themselves are named, not stored.                                 *)
(***************************************************************************)
BLOCK_SIZE == 32768

HEADER_SIZE == 7

Full == 1

First == 2

Middle == 3

LastType == 4

LogWriterNew == [file |-> <<>>, current_block_offset |-> 0]

PadChunk(n) == [k |-> "pad", n |-> n]

FragChunk(ty, rec, from, n) == [k |-> "frag", ty |-> ty, rec |-> rec, from |-> from, n |-> n]

\* a "bad" chunk is a chunk whose payload bits were flipped on disk; a "cut"
\* chunk is the n bytes left of a chunk the file was truncated in
ChunkSize(c) == IF c.k \in {"pad", "cut"} THEN c.n ELSE HEADER_SIZE + c.n

RECURSIVE FileSize(_)
FileSize(file) == IF file = <<>> THEN 0 ELSE ChunkSize(Head(file)) + FileSize(Tail(file))

\* LogWriter::emit_record: header, payload, flush; then the offset is SET to
\* HEADER_SIZE + len (log.rs:103)
emit_record_offset(w, len) == HEADER_SIZE + len

emit_record(w, t, rec, from, len) ==
    [file |-> Append(w.file, FragChunk(t, rec, from, len)),
     current_block_offset |-> emit_record_offset(w, len)]

\* LogWriter::add_record: the while loop over the fragments of one record of
\* `len` bytes; `from` is how much of it has been written
RECURSIVE add_record_loop(_, _, _, _, _)
add_record_loop(w, rec, len, from, first_frag) ==
    IF from >= len THEN w
    ELSE LET left == BLOCK_SIZE - w.current_block_offset
             w1 == IF left < HEADER_SIZE
                   THEN [file |-> IF left > 0 THEN Append(w.file, PadChunk(left)) ELSE w.file,
                         current_block_offset |-> 0]
                   ELSE w
             avail_size == BLOCK_SIZE - w1.current_block_offset - HEADER_SIZE
             remaining == len - from
             data_frag_size == IF remaining < avail_size THEN remaining ELSE avail_size
             record_type == IF first_frag /\ data_frag_size = remaining THEN Full
                            ELSE IF first_frag THEN First
                            ELSE IF data_frag_size = remaining THEN LastType
                            ELSE Middle
         IN add_record_loop(emit_record(w1, record_type, rec, from, data_frag_size),
                            rec, len, from + data_frag_size, FALSE)

add_record(w, rec, len) == add_record_loop(w, rec, len, 0, TRUE)

\* The chunk that starts at byte `pos` of the file, 0 when no chunk starts there
RECURSIVE ChunkAtFrom(_, _, _, _)
ChunkAtFrom(file, i, start, pos) ==
    IF i > Len(file) \/ start > pos THEN 0
    ELSE IF start = pos /\ ChunkSize(file[i]) > 0 THEN i
    ELSE ChunkAtFrom(file, i + 1, start + ChunkSize(file[i]), pos)

ChunkAt(file, pos) == ChunkAtFrom(file, 1, 0, pos)

NoReader == [pos |-> -1, blk_off |-> 0]

LogReaderNew == [pos |-> 0, blk_off |-> 0]

\* LogReader::read_physical_record.  The result is
\*   [r |-> the reader after the call, st |-> status, pieces |-> dst]
\* with st "Some" (a record), "None" (clean end of file), "IOError" (a
\* read_exact past the end, returned by `?`), "Corruption" (checksum
\* mismatch) or "Garbled" (the 7 bytes read as a header are not a header
\* the writer wrote: what follows depends on payload bytes).
RECURSIVE read_physical_loop(_, _, _)
read_physical_loop(file, r, pieces) ==
    LET size == FileSize(file)
        skip == BLOCK_SIZE - r.blk_off
        needskip == skip < HEADER_SIZE
    IN IF needskip /\ r.pos + skip > size
       THEN [r |-> [r EXCEPT !.pos = size], st |-> "IOError", pieces |-> pieces]
       ELSE LET r1 == IF needskip THEN [pos |-> r.pos + skip, blk_off |-> 0] ELSE r
            IN IF r1.pos + HEADER_SIZE > size
               THEN [r |-> [r1 EXCEPT !.pos = size], st |-> "None", pieces |-> pieces]
               ELSE LET i == ChunkAt(file, r1.pos)
                    IN IF i = 0 \/ file[i].k = "pad"
                       THEN [r |-> [r1 EXCEPT !.pos = size], st |-> "Garbled", pieces |-> pieces]
                       ELSE IF file[i].k = "cut"
                       THEN [r |-> [r1 EXCEPT !.pos = size], st |-> "IOError", pieces |-> pieces]
                       ELSE LET c == file[i]
                                r2 == [pos |-> r1.pos + HEADER_SIZE + c.n,
                                       blk_off |-> (r1.blk_off + HEADER_SIZE + c.n) % BLOCK_SIZE]
                                got == Append(pieces, [rec |-> c.rec, from |-> c.from, n |-> c.n])
                            IN IF c.k = "bad"
                               THEN [r |-> r2, st |-> "Corruption", pieces |-> got]
                               ELSE IF c.ty \in {Full, LastType}
                               THEN [r |-> r2, st |-> "Some", pieces |-> got]
                               ELSE read_physical_loop(file, r2, got)

read_record(file, r) == read_physical_loop(file, r, <<>>)

\* The bytes of dst: the record the pieces spell when they are the whole of one
\* record in order, and "garbage" otherwise
RECURSIVE PiecesFrom(_, _, _)
PiecesFrom(pieces, rec, from) ==
    IF pieces = <<>> THEN from
    ELSE IF Head(pieces).rec = rec /\ Head(pieces).from = from
         THEN PiecesFrom(Tail(pieces), rec, from + Head(pieces).n)
         ELSE -1

Assemble(pieces) ==
    IF pieces = <<>> THEN [rec |-> 0, len |-> -1]
    ELSE [rec |-> pieces[1].rec, len |-> PiecesFrom(pieces, pieces[1].rec, 0)]

(***************************************************************************)
(* skiplist.rs : the skip list                                             *)
(*                                                                         *)
(* Nodes are numbered 1.. in the order of their allocation; HEAD names the *)
(* head sentinel and NIL the None pointer.  A list is                      *)
(*   [skips |-> the head's MAX_HEIGHT tower, next |-> the head's next,     *)
(*    nodes |-> <<[key, skips, next], ...>>]                               *)
(* Levels are the code's 0-based levels; tower[level + 1] is skips[level]. *)
(***************************************************************************)
MAX_HEIGHT == 12

NIL == 0

HEAD == -1

Deletetion == 0

Value == 1

\* InternalKeyComparator::compare behind KeyComparator::compare: user keys
\* ascending, then the whole 8-byte tag (sequence << 8 | type) descending
InternalKeyCompare_TagAscending(left, right) ==
    LET c == BytesCmp(left.ukey, right.ukey)
    IN IF c # 0 THEN c
       ELSE IF left.tag < right.tag THEN -1
       ELSE IF left.tag > right.tag THEN 1
       ELSE 0

\* the opposite order: user keys descending, then the tag ascending
InternalKeyCompare_Reversed(left, right) ==
    LET c == BytesCmp(left.ukey, right.ukey)
    IN IF c # 0 THEN 0 - c
       ELSE IF left.tag < right.tag THEN -1
       ELSE IF left.tag > right.tag THEN 1
       ELSE 0

InternalKeyCompare(left, right) ==
    LET c == BytesCmp(left.ukey, right.ukey)
    IN IF c # 0 THEN c
       ELSE IF right.tag < left.tag THEN -1
       ELSE IF right.tag > left.tag THEN 1
       ELSE 0

KeyCompare(left, right) == InternalKeyCompare(left, right)

SkipListNew == [skips |-> [i \in 1..MAX_HEIGHT |-> NIL], next |-> NIL, nodes |-> <<>>]

NodeSkips(list, id, level) ==
    IF id = HEAD THEN list.skips[level + 1]
    ELSE IF level < Len(list.nodes[id].skips) THEN list.nodes[id].skips[level + 1]
    ELSE NIL

NodeNext(list, id) == IF id = HEAD THEN list.next ELSE list.nodes[id].next

NodeKey(list, id) == list.nodes[id].key

\* SkipList::get_greater_or_equal: the loop, then the check after `break`
RECURSIVE get_greater_or_equal_loop(_, _, _, _)
get_greater_or_equal_loop(list, key, current, level) ==
    LET next == NodeSkips(list, current, level)
        ord == IF next # NIL THEN KeyCompare(NodeKey(list, next), key) ELSE 2
    IN IF next # NIL /\ ord < 0 THEN get_greater_or_equal_loop(list, key, next, level)
       ELSE IF next # NIL /\ ord = 0 THEN next
       ELSE IF next # NIL /\ level = 0 THEN next
       ELSE IF level = 0
            THEN IF current = HEAD \/ KeyCompare(NodeKey(list, current), key) < 0
                 THEN NIL
                 ELSE current
            ELSE get_greater_or_equal_loop(list, key, current, level - 1)

get_greater_or_equal(list, key) ==
    get_greater_or_equal_loop(list, key, HEAD, MAX_HEIGHT - 1)

\* SkipList::insert, the search loop: [panic, current, prevs]
RECURSIVE insert_loop(_, _, _, _, _, _)
insert_loop(list, key, new_height, current, level, prevs) ==
    LET next == NodeSkips(list, current, level)
        ord == IF next # NIL THEN KeyCompare(NodeKey(list, next), key) ELSE 2
    IN IF next # NIL /\ ord = 0
       THEN [panic |-> TRUE, current |-> current, prevs |-> prevs]
       ELSE IF next # NIL /\ ord < 0
       THEN insert_loop(list, key, new_height, next, level, prevs)
       ELSE LET prevs1 == IF level < new_height
                          THEN [prevs EXCEPT ![level + 1] = current]
                          ELSE prevs
            IN IF level = 0
               THEN [panic |-> FALSE, current |-> current, prevs |-> prevs1]
               ELSE insert_loop(list, key, new_height, current, level - 1, prevs1)

\* SkipList::insert with the height random_height drew: [panic, list]
insert(list, key, new_height) ==
    LET found == insert_loop(list, key, new_height, HEAD, MAX_HEIGHT - 1,
                             [i \in 1..new_height |-> HEAD])
        new_ptr == Len(list.nodes) + 1
        new_node == [key |-> key,
                     skips |-> [i \in 1..new_height |-> NodeSkips(list, found.prevs[i], i - 1)],
                     next |-> NodeNext(list, found.current)]
        relink(id, tower) ==
            [i \in 1..Len(tower) |->
                IF i <= new_height /\ found.prevs[i] = id THEN new_ptr ELSE tower[i]]
    IN IF found.panic THEN [panic |-> TRUE, list |-> list]
       ELSE [panic |-> FALSE,
             list |-> [skips |-> relink(HEAD, list.skips),
                       next |-> IF found.current = HEAD THEN new_ptr ELSE list.next,
                       nodes |-> Append(
                           [id \in 1..Len(list.nodes) |->
                               [key |-> list.nodes[id].key,
                                skips |-> relink(id, list.nodes[id].skips),
                                next |-> IF found.current = id THEN new_ptr
                                         ELSE list.nodes[id].next]],
                           new_node)]]

\* SkipListIter::seek
SkipListIter_seek(list, target) == get_greater_or_equal(list, target)

(***************************************************************************)
(* skiplist.rs : SkipList::insert store by store.  The search is the       *)
(* inserting thread's own reading; then each level is linked, the          *)
(* predecessor's `next` box is taken out, put into the new node, and the   *)
(* new node is put into the predecessor.  `w` is the insert in progress:   *)
(*   [list, pc, key, new_height, prevs, current, new_ptr, level, taken]    *)
(***************************************************************************)
SetSkip(list, id, level, v) ==
    IF id = HEAD THEN [list EXCEPT !.skips[level + 1] = v]
    ELSE [list EXCEPT !.nodes[id].skips[level + 1] = v]

SetNext(list, id, v) ==
    IF id = HEAD THEN [list EXCEPT !.next = v] ELSE [list EXCEPT !.nodes[id].next = v]

NoInsert(list) ==
    [list |-> list, pc |-> "idle", new_height |-> 0, prevs |-> <<>>, current |-> HEAD,
     new_ptr |-> NIL, level |-> 0, taken |-> NIL]

\* the search loop and the allocation of the new node
insert_begin(list, key, new_height) ==
    LET found == insert_loop(list, key, new_height, HEAD, MAX_HEIGHT - 1,
                             [i \in 1..new_height |-> HEAD])
    IN [list |-> [list EXCEPT !.nodes =
                     Append(@, [key |-> key, skips |-> [i \in 1..new_height |-> NIL],
                                next |-> NIL])],
        pc |-> IF found.panic THEN "panic" ELSE "link", new_height |-> new_height,
        prevs |-> found.prevs, current |-> found.current,
        new_ptr |-> Len(list.nodes) + 1, level |-> 0, taken |-> NIL]

\* the next stores of the insert in progress
insert_store(w) ==
    IF w.pc = "link"
    THEN [w EXCEPT
            !.list = SetSkip(SetSkip(w.list, w.new_ptr, w.level,
                                     NodeSkips(w.list, w.prevs[w.level + 1], w.level)),
                             w.prevs[w.level + 1], w.level, w.new_ptr),
            !.level = w.level + 1,
            !.pc = IF w.level + 1 < w.new_height THEN "link" ELSE "take"]
    ELSE IF w.pc = "take"
    THEN [w EXCEPT !.taken = NodeNext(w.list, w.current),
                   !.list = SetNext(w.list, w.current, NIL), !.pc = "set"]
    ELSE IF w.pc = "set"
    THEN [w EXCEPT !.list = SetNext(w.list, w.new_ptr, w.taken), !.pc = "publish"]
    ELSE NoInsert(SetNext(w.list, w.current, w.new_ptr))

(***************************************************************************)
(* memtable.rs : the memtable                                              *)
(*                                                                         *)
(* An entry is [ukey, tag, value] with tag = type | sequence << 8; its     *)
(* encoded size is computed as the code computes it.                       *)
(***************************************************************************)
required_space(n) == IF n < 128 THEN 1 ELSE IF n < 16384 THEN 2 ELSE 3

\* t as u64 | (seq << 8); the sequences of the model stay far below 2^56
MakeTag(seq, t) == seq * 256 + t

TagType(tag) == tag % 256

TagSeq(tag) == tag \div 256

MemTableNew == [table |-> SkipListNew, memory_usage |-> 0]

\* MemTable::add: [panic, mem]
MemTable_add(m, seq, t, key, value, new_height) ==
    LET key_size == Len(key) + 8
        value_size == Len(value)
        size == key_size + value_size + required_space(key_size) + required_space(value_size)
        ins == insert(m.table, [ukey |-> key, tag |-> MakeTag(seq, t), value |-> value],
                      new_height)
    IN [panic |-> ins.panic,
        mem |-> [table |-> ins.list, memory_usage |-> m.memory_usage + size]]

\* LookupKey::new
LookupKey(key, seq, t) == [ukey |-> key, tag |-> MakeTag(seq, t), value |-> <<>>]

\* MemTable::get: Ok(Some(v)) is [st "Value", v], Ok(None) is [st "Deleted"],
\* Err(NotFoundError) is [st "NotFound"]
MemTable_get(m, search_key) ==
    LET cur == SkipListIter_seek(m.table, search_key)
    IN IF cur # NIL /\ BytesCmp(search_key.ukey, NodeKey(m.table, cur).ukey) = 0
       THEN IF TagType(NodeKey(m.table, cur).tag) = Value
            THEN [st |-> "Value", v |-> NodeKey(m.table, cur).value]
            ELSE IF TagType(NodeKey(m.table, cur).tag) = Deletetion
            THEN [st |-> "Deleted", v |-> <<>>]
            ELSE [st |-> "NotFound", v |-> <<>>]
       ELSE [st |-> "NotFound", v |-> <<>>]

(***************************************************************************)
(* codec : varints and fixed-width integers, as bytes                      *)
(***************************************************************************)
RECURSIVE EncodeVarint(_)
EncodeVarint(n) ==
    IF n < 128 THEN <<n>> ELSE <<(n % 128) + 128>> \o EncodeVarint(n \div 128)

\* the varint at offset `off` of data: [ok, v, len]
RECURSIVE DecodeVarint(_, _)
DecodeVarint(data, off) ==
    IF off >= Len(data) THEN [ok |-> FALSE, v |-> 0, len |-> 0]
    ELSE IF data[off + 1] < 128 THEN [ok |-> TRUE, v |-> data[off + 1], len |-> 1]
    ELSE LET rest == DecodeVarint(data, off + 1)
         IN [ok |-> rest.ok, v |-> (data[off + 1] - 128) + 128 * rest.v, len |-> rest.len + 1]

EncodeFixed32(n) ==
    <<n % 256, (n \div 256) % 256, (n \div 65536) % 256, (n \div 16777216) % 256>>

DecodeFixed32(data, off) ==
    data[off + 1] + 256 * data[off + 2] + 65536 * data[off + 3] + 16777216 * data[off + 4]

RECURSIVE EncodeRestarts(_)
EncodeRestarts(rs) == IF rs = <<>> THEN <<>> ELSE EncodeFixed32(Head(rs)) \o EncodeRestarts(Tail(rs))

(***************************************************************************)
(* block_builder.rs : BlockBuilder                                         *)
(***************************************************************************)
BlockBuilderNew(block_restart_interval) ==
    [block_restart_interval |-> block_restart_interval, buffer |-> <<>>,
     restarts |-> <<0>>, counter |-> 0, last_key |-> <<>>, restart_counter |-> 0]

RECURSIVE SharedPrefix(_, _, _)
SharedPrefix(last_key, key, shared) ==
    IF shared < Min(Len(key), Len(last_key)) /\ last_key[shared + 1] = key[shared + 1]
    THEN SharedPrefix(last_key, key, shared + 1)
    ELSE shared

\* BlockBuilder::add: [panic, b]
BlockBuilder_add(b, key, val) ==
    IF \/ b.restart_counter > b.block_restart_interval
       \/ ~(b.buffer = <<>> \/ BytesCmp(key, b.last_key) = 1)
    THEN [panic |-> TRUE, b |-> b]
    ELSE LET restart == ~(b.restart_counter < b.block_restart_interval)
             shared == IF restart THEN 0 ELSE SharedPrefix(b.last_key, key, 0)
             no_shared == Len(key) - shared
             suffix == SubSeq(key, shared + 1, Len(key))
         IN [panic |-> FALSE,
             b |-> [block_restart_interval |-> b.block_restart_interval,
                    buffer |-> b.buffer \o EncodeVarint(shared) \o EncodeVarint(no_shared)
                                   \o EncodeVarint(Len(val)) \o suffix \o val,
                    restarts |-> IF restart THEN Append(b.restarts, Len(b.buffer))
                                 ELSE b.restarts,
                    counter |-> b.counter + 1,
                    last_key |-> SubSeq(b.last_key, 1, shared) \o suffix,
                    restart_counter |-> (IF restart THEN 0 ELSE b.restart_counter) + 1]]

BlockBuilder_finish(b) ==
    b.buffer \o EncodeRestarts(b.restarts) \o EncodeFixed32(Len(b.restarts))

current_size_estimate(b) == Len(b.buffer) + 4 * Len(b.restarts) + 4

(***************************************************************************)
(* block.rs : Block and BlockIter                                          *)
(*                                                                         *)
(* An iterator carries st: "ok", "panic" (an assert or an arithmetic       *)
(* overflow check failed) or "hang" (a loop that never ends).              *)
(***************************************************************************)
RESTART_SIZE == 4

\* Block::from_raw: [ok, content, restart_offset, num_restarts]
Block_from_raw(content) ==
    LET n == Len(content)
        num_restarts == IF n < RESTART_SIZE THEN 0 ELSE DecodeFixed32(content, n - 4)
    IN IF n < RESTART_SIZE \/ num_restarts > (n - RESTART_SIZE) \div RESTART_SIZE
       THEN [ok |-> FALSE, content |-> content, restart_offset |-> 0, num_restarts |-> 0]
       ELSE [ok |-> TRUE, content |-> content,
             restart_offset |-> n - num_restarts * RESTART_SIZE - RESTART_SIZE,
             num_restarts |-> num_restarts]

BlockIterNew(block) ==
    [content |-> block.content, restarts |-> block.restart_offset,
     num_restarts |-> block.num_restarts, current |-> block.restart_offset,
     restart_index |-> block.num_restarts, key |-> <<>>,
     value_off |-> 0, value_len |-> 0, err |-> FALSE, st |-> "ok"]

BlockIter_valid(it) == it.current < it.restarts

BlockIter_key(it) == it.key

BlockIter_value(it) == SubSeq(it.content, it.value_off + 1, it.value_off + it.value_len)

next_entry_offset(it) == it.value_off + it.value_len

get_restart_point(it, index) == DecodeFixed32(it.content, it.restarts + RESTART_SIZE * index)

seek_to_restart_point(it, index) ==
    IF ~(index < it.num_restarts) THEN [it EXCEPT !.st = "panic"]
    ELSE [it EXCEPT !.key = <<>>, !.restart_index = index,
                    !.current = get_restart_point(it, index),
                    !.value_off = get_restart_point(it, index), !.value_len = 0]

\* BlockIter::decode_entry: [ok, shared, non_shared, value_len, step]
decode_entry(it, offset) ==
    LET bad == [ok |-> FALSE, shared |-> 0, non_shared |-> 0, value_len |-> 0, step |-> 0]
        d0 == it.content[offset + 1]
        d1 == it.content[offset + 2]
        d2 == it.content[offset + 3]
        v1 == DecodeVarint(it.content, offset)
        v2 == DecodeVarint(it.content, offset + v1.len)
        v3 == DecodeVarint(it.content, offset + v1.len + v2.len)
        fast == d0 < 128 /\ d1 < 128 /\ d2 < 128
        e == IF fast
             THEN [ok |-> TRUE, shared |-> d0, non_shared |-> d1, value_len |-> d2, step |-> 3]
             ELSE [ok |-> v1.ok /\ v2.ok /\ v3.ok, shared |-> v1.v, non_shared |-> v2.v,
                   value_len |-> v3.v, step |-> v1.len + v2.len + v3.len]
    IN IF it.restarts - offset < 3 THEN bad
       ELSE IF ~e.ok THEN bad
       ELSE IF it.restarts - offset - e.step < e.non_shared + e.value_len THEN bad
       ELSE e

RECURSIVE AdvanceRestartIndex(_, _)
AdvanceRestartIndex(it, restart_index) ==
    IF restart_index + 1 < it.num_restarts
       /\ get_restart_point(it, restart_index + 1) < it.current
    THEN AdvanceRestartIndex(it, restart_index + 1)
    ELSE restart_index

\* BlockIter::parse_next_entry: [it, more]
parse_next_entry(it) ==
    LET current == next_entry_offset(it)
        entry(e) ==
            LET offset == current + e.step
            IN [it EXCEPT !.current = current,
                          !.key = SubSeq(it.key, 1, Min(e.shared, Len(it.key)))
                                      \o SubSeq(it.content, offset + 1, offset + e.non_shared),
                          !.value_off = offset + e.non_shared,
                          !.value_len = e.value_len]
    IN IF current >= it.restarts
       THEN [it |-> [it EXCEPT !.current = it.restarts, !.restart_index = it.num_restarts],
             more |-> FALSE]
       ELSE Only({
            IF e.ok
            THEN Only({[it |-> [it1 EXCEPT !.restart_index =
                                               AdvanceRestartIndex(it1, it.restart_index)],
                        more |-> TRUE] : it1 \in {entry(e)}})
            ELSE [it |-> [it EXCEPT !.current = current, !.err = TRUE], more |-> FALSE]
            : e \in {decode_entry(it, current)}})

BlockIter_seek_to_first(it) ==
    Only({IF it1.st # "ok" THEN it1 ELSE parse_next_entry(it1).it
          : it1 \in {seek_to_restart_point(it, 0)}})

\* BlockIter::seek, the binary search over the restart points: [st, left].
\* `left = mid` with mid = left repeats the same iteration for ever; `mid - 1`
\* with mid = 0 overflows u32 (a panic when overflow checks are on, and
\* otherwise right wraps and the next get_restart_point assert fails).
RECURSIVE seek_restart_search(_, _, _, _)
seek_restart_search(it, target, left, right) ==
    IF ~(left < right) THEN [st |-> "ok", left |-> left]
    ELSE LET mid == (left + right) \div 2
             region_offset == get_restart_point(it, mid)
         IN Only({
            LET offset == region_offset + e.step
                key == SubSeq(it.content, offset + 1, offset + e.non_shared)
            IN IF ~e.ok \/ e.shared # 0 THEN [st |-> "corrupt", left |-> left]
               ELSE IF BytesCmp(key, target) = -1
               THEN IF mid = left THEN [st |-> "hang", left |-> left]
                    ELSE seek_restart_search(it, target, mid, right)
               ELSE IF mid = 0 THEN [st |-> "panic", left |-> left]
                    ELSE seek_restart_search(it, target, left, mid - 1)
            : e \in {decode_entry(it, region_offset)}})

\* BlockIter::seek, the linear scan from the restart point
RECURSIVE seek_scan(_, _)
seek_scan(it, target) ==
    Only({IF ~p.more THEN p.it
          ELSE IF BytesCmp(p.it.key, target) # -1 THEN p.it
          ELSE seek_scan(p.it, target)
          : p \in {parse_next_entry(it)}})

BlockIter_seek(it, target) ==
    IF it.num_restarts = 0 THEN [it EXCEPT !.st = "panic"]
    ELSE Only({
         IF found.st = "corrupt" THEN [it EXCEPT !.err = TRUE]
         ELSE IF found.st # "ok" THEN [it EXCEPT !.st = found.st]
         ELSE Only({IF it1.st # "ok" THEN it1 ELSE seek_scan(it1, target)
                    : it1 \in {seek_to_restart_point(it, found.left)}})
         : found \in {seek_restart_search(it, target, 0, it.num_restarts - 1)}})

BlockIter_next(it) ==
    IF ~BlockIter_valid(it) THEN [it EXCEPT !.st = "panic"]
    ELSE parse_next_entry(it).it

(***************************************************************************)
(* cmp.rs : BitWiseComparator's key shortening, on bytes                   *)
(***************************************************************************)
RECURSIVE DiffIndex(_, _, _)
DiffIndex(start, limit, i) ==
    IF i < Min(Len(start), Len(limit)) /\ limit[i + 1] = start[i + 1]
    THEN DiffIndex(start, limit, i + 1)
    ELSE i

find_shortest_separator(start, limit) ==
    LET diff_index == DiffIndex(start, limit, 0)
    IN IF diff_index < Min(Len(start), Len(limit))
          /\ start[diff_index + 1] < 255
          /\ start[diff_index + 1] + 1 < limit[diff_index + 1]
       THEN SubSeq(start, 1, diff_index) \o <<start[diff_index + 1] + 1>>
       ELSE start

\* the index of the first byte that is not 0xff, 0 when there is none
RECURSIVE FirstNotFF(_, _)
FirstNotFF(key, i) ==
    IF i > Len(key) THEN 0 ELSE IF key[i] # 255 THEN i ELSE FirstNotFF(key, i + 1)

\* find_shortest_successor: the first byte that is not 0xff is incremented and
\* truncate_len becomes 1, whatever the position of that byte
find_shortest_successor(key) ==
    LET i == FirstNotFF(key, 1)
    IN IF i = 0 THEN key
       ELSE SubSeq([key EXCEPT ![i] = key[i] + 1], 1, 1)

(***************************************************************************)
(* table.rs / sstable/format.rs : TableBuiler and Table                    *)
(*                                                                         *)
(* A table file is the sequence of its appends: a block chunk              *)
(* [k "block", data] is the block's bytes and its 5-byte trailer (type and *)
(* crc of exactly these bytes), the footer chunk [k "footer", data] the 40 *)
(* bytes of the two handles and the 8 magic bytes.  The options are those  *)
(* of Options::default but for                                             *)
(* block_size and block_restart_interval: no filter policy, no compression.*)
(***************************************************************************)
BLOCK_TRAILER_SIZE == 5

FOOTER_LENGTH == 40

FULL_FOOTER_LENGTH == 48

BlockHandleNew(offset, size) == [offset |-> offset, size |-> size]

BlockHandle_encode(h) == EncodeVarint(h.offset) \o EncodeVarint(h.size)

\* handle_encoding = vec![0; 16] with the handle encoded at its front
HandleEncoding16(h) ==
    BlockHandle_encode(h) \o [i \in 1..(16 - Len(BlockHandle_encode(h))) |-> 0]

\* BlockHandle::decode: [ok, h, len]
BlockHandle_decode(data) ==
    LET o == DecodeVarint(data, 0)
        s == DecodeVarint(data, o.len)
    IN [ok |-> o.ok /\ s.ok, h |-> BlockHandleNew(o.v, s.v), len |-> o.len + s.len]

\* Footer::encode: the two handles at the front of FOOTER_LENGTH zero bytes
Footer_encode(meta, index) ==
    BlockHandle_encode(meta) \o BlockHandle_encode(index)
        \o [i \in 1..(FOOTER_LENGTH - Len(BlockHandle_encode(meta))
                                    - Len(BlockHandle_encode(index))) |-> 0]

\* Footer::decode: [ok, meta_index_handle, index_handle]
Footer_decode(data) ==
    LET m == BlockHandle_decode(data)
        x == BlockHandle_decode(SubSeq(data, m.len + 1, Len(data)))
    IN [ok |-> m.ok /\ x.ok, meta_index_handle |-> m.h, index_handle |-> x.h]

TableChunkSize(c) ==
    IF c.k = "block" THEN Len(c.data) + BLOCK_TRAILER_SIZE ELSE FULL_FOOTER_LENGTH

RECURSIVE TableFileSize(_)
TableFileSize(file) ==
    IF file = <<>> THEN 0 ELSE TableChunkSize(Head(file)) + TableFileSize(Tail(file))

\* the chunk starting at byte `pos` of the table file, 0 when there is none
RECURSIVE TableChunkAt(_, _, _, _)
TableChunkAt(file, i, start, pos) ==
    IF i > Len(file) \/ start > pos THEN 0
    ELSE IF start = pos THEN i
    ELSE TableChunkAt(file, i + 1, start + TableChunkSize(file[i]), pos)

TableBuilerNew(block_restart_interval, block_size) ==
    [block_restart_interval |-> block_restart_interval, block_size |-> block_size,
     file |-> <<>>, offset |-> 0,
     data_block |-> BlockBuilderNew(block_restart_interval),
     index_block |-> BlockBuilderNew(1),
     last_key |-> <<>>, num_entries |-> 0,
     pending_index_entry |-> FALSE, pending_handle |-> BlockHandleNew(0, 0)]

\* write_block / write_raw_block of a finished block builder
write_block(tb, block) ==
    LET raw == BlockBuilder_finish(block)
    IN [tb EXCEPT !.file = Append(tb.file, [k |-> "block", data |-> raw]),
                  !.offset = tb.offset + Len(raw) + BLOCK_TRAILER_SIZE]

\* TableBuiler::flush
TableBuiler_flush(tb) ==
    LET fresh == [tb EXCEPT !.data_block = BlockBuilderNew(tb.block_restart_interval)]
    IN IF tb.data_block.buffer = <<>> THEN fresh
       ELSE [write_block(fresh, tb.data_block) EXCEPT
                !.pending_handle = BlockHandleNew(tb.offset,
                                                  Len(BlockBuilder_finish(tb.data_block))),
                !.pending_index_entry = TRUE]

\* TableBuiler::add: [panic, tb]
TableBuiler_add(tb, key, value) ==
    LET sep == find_shortest_separator(tb.last_key, key)
        idx == IF tb.pending_index_entry
               THEN BlockBuilder_add(tb.index_block, sep, HandleEncoding16(tb.pending_handle))
               ELSE [panic |-> FALSE, b |-> tb.index_block]
        dat == BlockBuilder_add(tb.data_block, key, value)
        tb1 == [tb EXCEPT !.index_block = idx.b, !.pending_index_entry = FALSE,
                          !.last_key = key, !.num_entries = tb.num_entries + 1,
                          !.data_block = dat.b]
    IN IF tb.num_entries > 0 /\ BytesCmp(key, tb.last_key) # 1 THEN [panic |-> TRUE, tb |-> tb]
       ELSE IF tb.pending_index_entry /\ tb.data_block.buffer # <<>>
       THEN [panic |-> TRUE, tb |-> tb]
       ELSE IF idx.panic \/ dat.panic THEN [panic |-> TRUE, tb |-> tb]
       ELSE [panic |-> FALSE,
             tb |-> IF current_size_estimate(dat.b) >= tb.block_size
                    THEN TableBuiler_flush(tb1) ELSE tb1]

\* TableBuiler::finish: [panic, tb], tb.file the finished file
TableBuiler_finish(tb) ==
    LET tb1 == TableBuiler_flush(tb)
        meta_handle == BlockHandleNew(tb1.offset, Len(BlockBuilder_finish(
                                          BlockBuilderNew(tb.block_restart_interval))))
        tb2 == write_block(tb1, BlockBuilderNew(tb.block_restart_interval))
        idx == IF tb2.pending_index_entry
               THEN BlockBuilder_add(tb2.index_block, find_shortest_successor(tb2.last_key),
                                     BlockHandle_encode(tb2.pending_handle))
               ELSE [panic |-> FALSE, b |-> tb2.index_block]
        index_handle == BlockHandleNew(tb2.offset, Len(BlockBuilder_finish(idx.b)))
        tb3 == write_block([tb2 EXCEPT !.pending_index_entry = FALSE,
                                       !.last_key = IF tb2.pending_index_entry
                                                    THEN find_shortest_successor(tb2.last_key)
                                                    ELSE tb2.last_key,
                                       !.index_block = idx.b], idx.b)
    IN IF idx.panic THEN [panic |-> TRUE, tb |-> tb2]
       ELSE [panic |-> FALSE,
             tb |-> [tb3 EXCEPT !.file = Append(tb3.file,
                                                [k |-> "footer",
                                                 data |-> Footer_encode(meta_handle, index_handle)]),
                                !.offset = tb3.offset + FULL_FOOTER_LENGTH]]

\* BlockContent::read_block_from_file then Block::from_raw
read_block(file, handle) ==
    LET i == TableChunkAt(file, 1, 0, handle.offset)
    IN IF i = 0 \/ file[i].k # "block" \/ Len(file[i].data) # handle.size
       THEN Block_from_raw(<<>>)
       ELSE Block_from_raw(file[i].data)

\* Table::open: [ok, index_block]
Table_open(file, size) ==
    LET i == IF size < FULL_FOOTER_LENGTH THEN 0
             ELSE TableChunkAt(file, 1, 0, size - FULL_FOOTER_LENGTH)
    IN IF i = 0 \/ file[i].k # "footer" \/ ~Footer_decode(file[i].data).ok
       THEN [ok |-> FALSE, index_block |-> Block_from_raw(<<>>)]
       ELSE [ok |-> read_block(file, Footer_decode(file[i].data).index_handle).ok,
             index_block |-> read_block(file, Footer_decode(file[i].data).index_handle)]

(***************************************************************************)
(* two_level_iterator.rs : TwoLevelIterator over a table's index block     *)
(***************************************************************************)
NoBlockIter == BlockIterNew(Block_from_raw(<<>>))

TwoLevelIteratorNew(index_block) ==
    [index_iter |-> BlockIterNew(index_block), has_data |-> FALSE,
     data_iter |-> NoBlockIter, data_block_handle |-> <<>>, status |-> FALSE, st |-> "ok"]

\* a panic or a hang inside a child is one of the whole iterator
Lift(t) ==
    IF t.st # "ok" THEN t
    ELSE IF t.index_iter.st # "ok" THEN [t EXCEPT !.st = t.index_iter.st]
    ELSE IF t.has_data /\ t.data_iter.st # "ok" THEN [t EXCEPT !.st = t.data_iter.st]
    ELSE t

TwoLevel_valid(t) == t.has_data /\ BlockIter_valid(t.data_iter)

set_data_iterator(t, has_data, data_iter) ==
    [t EXCEPT !.status = t.status \/ (t.has_data /\ t.data_iter.err),
              !.has_data = has_data, !.data_iter = data_iter]

\* TwoLevelIterator::init_data_block, with Table::block_iter_from_index
init_data_block(file, t) ==
    LET handle == BlockIter_value(t.index_iter)
        d == BlockHandle_decode(handle)
    IN IF ~BlockIter_valid(t.index_iter) THEN set_data_iterator(t, FALSE, NoBlockIter)
       ELSE IF t.has_data /\ handle = t.data_block_handle THEN t
       ELSE Only({
            IF block.ok
            THEN set_data_iterator([t EXCEPT !.data_block_handle = handle],
                                   TRUE, BlockIterNew(block))
            ELSE [t EXCEPT !.has_data = FALSE, !.data_iter = NoBlockIter, !.status = TRUE]
            : block \in {read_block(file, IF d.ok THEN d.h ELSE BlockHandleNew(0, 0))}})

data_seek_to_first(t) ==
    IF t.has_data THEN [t EXCEPT !.data_iter = BlockIter_seek_to_first(t.data_iter)] ELSE t

\* index_iter moved by the caller; then init_data_block and, when there is a
\* data block, its seek_to_first
open_first_of_block(file, t) ==
    Only({data_seek_to_first(t2) : t2 \in {init_data_block(file, t)}})

RECURSIVE skip_empty_data_blocks_forward(_, _)
skip_empty_data_blocks_forward(file, t) ==
    IF Lift(t).st # "ok" THEN Lift(t)
    ELSE IF TwoLevel_valid(t) THEN t
    ELSE IF ~BlockIter_valid(t.index_iter) THEN set_data_iterator(t, FALSE, NoBlockIter)
    ELSE Only({Only({skip_empty_data_blocks_forward(file, t2)
                     : t2 \in {open_first_of_block(file, t1)}})
               : t1 \in {[t EXCEPT !.index_iter = BlockIter_next(t.index_iter)]}})

TwoLevel_seek_to_first(file, t) ==
    Only({Only({skip_empty_data_blocks_forward(file, t2)
                : t2 \in {open_first_of_block(file, t1)}})
          : t1 \in {[t EXCEPT !.index_iter = BlockIter_seek_to_first(t.index_iter)]}})

data_seek(t, target) ==
    IF t.has_data THEN [t EXCEPT !.data_iter = BlockIter_seek(t.data_iter, target)] ELSE t

TwoLevel_seek(file, t, target) ==
    Only({IF t1.st # "ok" THEN t1
          ELSE Only({Only({skip_empty_data_blocks_forward(file, t3)
                           : t3 \in {data_seek(t2, target)}})
                     : t2 \in {init_data_block(file, t1)}})
          : t1 \in {Lift([t EXCEPT !.index_iter = BlockIter_seek(t.index_iter, target)])}})

\* a next that leaves the data block's end as the end of the scan
TwoLevel_next_NoSkip(file, t) ==
    IF ~TwoLevel_valid(t) THEN [t EXCEPT !.st = "panic"]
    ELSE [t EXCEPT !.data_iter = BlockIter_next(t.data_iter)]

TwoLevel_next(file, t) ==
    IF ~TwoLevel_valid(t) THEN [t EXCEPT !.st = "panic"]
    ELSE Only({skip_empty_data_blocks_forward(file, t1)
               : t1 \in {[t EXCEPT !.data_iter = BlockIter_next(t.data_iter)]}})

TwoLevel_key(t) == BlockIter_key(t.data_iter)

TwoLevel_value(t) == BlockIter_value(t.data_iter)

(***************************************************************************)
(* merge.rs : MergingIterator                                              *)
(*                                                                         *)
(* A child is a DBIterator over a sorted run of keys: [keys, pos], pos 0   *)
(* when it is not valid.  The merging iterator's current is the index of   *)
(* a child, 0 for None.                                                    *)
(***************************************************************************)
Child_valid(c) == c.pos # 0

Child_key(c) == c.keys[c.pos]

Child_seek_to_first(c) == [c EXCEPT !.pos = IF c.keys = <<>> THEN 0 ELSE 1]

Child_seek_to_last(c) == [c EXCEPT !.pos = Len(c.keys)]

Child_seek(c, target) ==
    LET at == {i \in 1..Len(c.keys) : BytesCmp(c.keys[i], target) # -1}
    IN [c EXCEPT !.pos = IF at = {} THEN 0 ELSE CHOOSE i \in at : \A j \in at : i <= j]

Child_next(c) == [c EXCEPT !.pos = IF c.pos < Len(c.keys) THEN c.pos + 1 ELSE 0]

Child_prev(c) == [c EXCEPT !.pos = c.pos - 1]

MergingIteratorNew(children) ==
    [children |-> children, current |-> 0, direction |-> "FORWARD", st |-> "ok"]

\* find_smallest: the fold over the children in index order
RECURSIVE find_smallest_from(_, _, _)
find_smallest_from(children, idx, smallest) ==
    IF idx > Len(children) THEN smallest
    ELSE find_smallest_from(children, idx + 1,
            IF ~Child_valid(children[idx]) THEN smallest
            ELSE IF smallest = 0 THEN idx
            ELSE IF BytesCmp(Child_key(children[idx]), Child_key(children[smallest])) = -1
                 THEN idx
                 ELSE smallest)

find_smallest(m) == [m EXCEPT !.current = find_smallest_from(m.children, 1, 0)]

RECURSIVE find_largest_from(_, _, _)
find_largest_from(children, idx, largest) ==
    IF idx > Len(children) THEN largest
    ELSE find_largest_from(children, idx + 1,
            IF ~Child_valid(children[idx]) THEN largest
            ELSE IF largest = 0 THEN idx
            ELSE IF BytesCmp(Child_key(children[idx]), Child_key(children[largest])) = 1
                 THEN idx
                 ELSE largest)

find_largest(m) == [m EXCEPT !.current = find_largest_from(m.children, 1, 0)]

Merge_valid(m) == m.current # 0

Merge_key(m) == Child_key(m.children[m.current])

Merge_seek_to_first(m) ==
    [find_smallest([m EXCEPT !.children =
                       [i \in 1..Len(m.children) |-> Child_seek_to_first(m.children[i])]])
     EXCEPT !.direction = "FORWARD"]

Merge_seek_to_last(m) ==
    [find_largest([m EXCEPT !.children =
                      [i \in 1..Len(m.children) |-> Child_seek_to_last(m.children[i])]])
     EXCEPT !.direction = "BACKWARD"]

\* MergingIterator::seek: the direction is left as it is
Merge_seek(m, target) ==
    [find_smallest([m EXCEPT !.children =
                       [i \in 1..Len(m.children) |-> Child_seek(m.children[i], target)]])
     EXCEPT !.direction = m.direction]

\* the other children of next() when the direction was BACKWARD
next_reposition(c, current_key) ==
    Only({IF Child_valid(c1) /\ BytesCmp(current_key, Child_key(c1)) = 0
          THEN Child_next(c1) ELSE c1
          : c1 \in {Child_seek(c, current_key)}})

Merge_next(m) ==
    IF ~Merge_valid(m) THEN [m EXCEPT !.st = "panic"]
    ELSE find_smallest(
            [m EXCEPT !.children =
                 [i \in 1..Len(m.children) |->
                     IF i = m.current THEN Child_next(m.children[i])
                     ELSE IF m.direction = "BACKWARD"
                          THEN next_reposition(m.children[i], Merge_key(m))
                          ELSE m.children[i]],
                      !.direction = "FORWARD"])

\* the other children of prev() when the direction was FORWARD
prev_reposition(c, current_key) ==
    Only({IF Child_valid(c1) THEN Child_prev(c1) ELSE Child_seek_to_last(c1)
          : c1 \in {Child_seek(c, current_key)}})

Merge_prev(m) ==
    IF ~Merge_valid(m) THEN [m EXCEPT !.st = "panic"]
    ELSE find_largest(
            [m EXCEPT !.children =
                 [i \in 1..Len(m.children) |->
                     IF i = m.current THEN Child_prev(m.children[i])
                     ELSE IF m.direction = "FORWARD"
                          THEN prev_reposition(m.children[i], Merge_key(m))
                          ELSE m.children[i]],
                      !.direction = "BACKWARD"])

(***************************************************************************)
(* write_batch.rs, builder.rs, db_impl.rs : the engine                     *)
(*                                                                         *)
(* A batch is [sequence, entries], entries a sequence of [t, key, value];  *)
(* its count is the number of entries.  The directory is                   *)
(*   [current |-> CURRENT exists, manifest |-> the edit new_db wrote,      *)
(*    logs |-> file number :> [file |-> chunks, synced |-> chunks fsynced]]*)
(* and a log's chunks name the batch they carry.                           *)
(***************************************************************************)
HEAD_SIZE == 12

WRITE_BUFFER_SIZE == 4194304

\* the length of WriteBatch::rep after put / delete of the entries
RECURSIVE BatchSize(_)
BatchSize(entries) ==
    IF entries = <<>> THEN HEAD_SIZE
    ELSE LET e == Head(entries)
         IN 1 + Len(EncodeVarint(Len(e.key))) + Len(e.key)
            + (IF e.t = Value THEN Len(EncodeVarint(Len(e.value))) + Len(e.value) ELSE 0)
            + BatchSize(Tail(entries))

\* WriteBatch::insert_into: iterate with a MemtableInserter, the i-th entry
\* added with sequence + i - 1; [panic, mem]
RECURSIVE insert_into(_, _, _, _)
insert_into(m, sequence, entries, new_heights) ==
    IF entries = <<>> THEN [panic |-> FALSE, mem |-> m]
    ELSE Only({IF a.panic THEN a
               ELSE insert_into(a.mem, sequence + 1, Tail(entries), Tail(new_heights))
               : a \in {MemTable_add(m, sequence, Head(entries).t, Head(entries).key,
                                     Head(entries).value, Head(new_heights))}})

\* the entries a memtable holds
MemEntries(m) ==
    {[ukey |-> m.table.nodes[i].key.ukey, seq |-> TagSeq(m.table.nodes[i].key.tag),
      t |-> TagType(m.table.nodes[i].key.tag), value |-> m.table.nodes[i].key.value]
     : i \in 1..Len(m.table.nodes)}

(***************************************************************************)
(* write_batch.rs : WriteBatch as the bytes of rep                         *)
(***************************************************************************)
\* the sequences and counts of the model stay below 2^31: the upper four
\* bytes of the fixed64 are zero
EncodeFixed64(n) == EncodeFixed32(n) \o <<0, 0, 0, 0>>

WriteBatchNew == [i \in 1..HEAD_SIZE |-> 0]

WriteBatch_sequence(b) == DecodeFixed32(b, 0)

WriteBatch_count(b) == DecodeFixed32(b, 8)

WriteBatch_set_sequence(b, seq) == EncodeFixed64(seq) \o SubSeq(b, 9, Len(b))

WriteBatch_set_count(b, n) == SubSeq(b, 1, 8) \o EncodeFixed32(n) \o SubSeq(b, 13, Len(b))

WriteBatch_put(b, key, value) ==
    WriteBatch_set_count(b, WriteBatch_count(b) + 1)
        \o <<Value>> \o EncodeVarint(Len(key)) \o key \o EncodeVarint(Len(value)) \o value

WriteBatch_delete(b, key) ==
    WriteBatch_set_count(b, WriteBatch_count(b) + 1)
        \o <<Deletetion>> \o EncodeVarint(Len(key)) \o key

\* append that copies the source's header along with its operations
WriteBatch_append_WithHeader(b, source) ==
    WriteBatch_set_count(b, WriteBatch_count(b) + WriteBatch_count(source)) \o source

WriteBatch_append(b, source) ==
    WriteBatch_set_count(b, WriteBatch_count(b) + WriteBatch_count(source))
        \o SubSeq(source, HEAD_SIZE + 1, Len(source))

\* codec::read_length_prefixed_slice at offset off: [ok, v, len]
read_length_prefixed_slice(data, off) ==
    Only({IF ~l.ok \/ off + l.len + l.v > Len(data)
          THEN [ok |-> FALSE, v |-> <<>>, len |-> 0]
          ELSE [ok |-> TRUE, v |-> SubSeq(data, off + l.len + 1, off + l.len + l.v),
                len |-> l.len + l.v]
          : l \in {DecodeVarint(data, off)}})

\* the loop of WriteBatch::iterate from offset off, `calls` the handler calls
\* made so far: [st, calls]
RECURSIVE iterate_loop(_, _, _)
iterate_loop(b, off, calls) ==
    IF off >= Len(b)
    THEN [st |-> IF Len(calls) # WriteBatch_count(b) THEN "Corruption" ELSE "Ok",
          calls |-> calls]
    ELSE IF b[off + 1] \notin {Deletetion, Value}
    THEN [st |-> "Corruption", calls |-> calls]
    ELSE Only({IF ~k.ok
               THEN [st |-> IF b[off + 1] = Value THEN "panic" ELSE "IOError",
                     calls |-> calls]
               ELSE IF b[off + 1] = Deletetion
               THEN iterate_loop(b, off + 1 + k.len,
                                 Append(calls, [t |-> Deletetion, key |-> k.v,
                                                value |-> <<>>]))
               ELSE Only({IF ~v.ok THEN [st |-> "panic", calls |-> calls]
                          ELSE iterate_loop(b, off + 1 + k.len + v.len,
                                            Append(calls, [t |-> Value, key |-> k.v,
                                                           value |-> v.v]))
                          : v \in {read_length_prefixed_slice(b, off + 1 + k.len)}})
               : k \in {read_length_prefixed_slice(b, off + 1)}})

\* WriteBatch::iterate
iterate(b) ==
    IF Len(b) < HEAD_SIZE THEN [st |-> "Corruption", calls |-> <<>>]
    ELSE iterate_loop(b, HEAD_SIZE, <<>>)

\* WriteBatch::insert_into a memtable: the handler of iterate is a
\* MemtableInserter starting at the batch's sequence; [st, mem].  sequence()
\* slices the first 8 bytes of rep and panics on a shorter rep
\* (write_batch.rs:74-77)
WriteBatch_insert_into(b, m, new_heights) ==
    IF Len(b) < 8 THEN [st |-> "panic", mem |-> m]
    ELSE
    Only({Only({[st |-> IF ins.panic THEN "panic" ELSE it.st, mem |-> ins.mem]
                : ins \in {insert_into(m, WriteBatch_sequence(b), it.calls, new_heights)}})
          : it \in {iterate(b)}})

NoBatchResult == [op |-> "none", st |-> "Ok", calls |-> <<>>, mem |-> MemTableNew]

(***************************************************************************)
(* version_edit.rs : VersionEdit and its MANIFEST encoding.  An Option is  *)
(* the empty sequence (None) or a sequence of one element (Some); an       *)
(* InternalKey is the bytes of its rep.                                    *)
(***************************************************************************)
COMPARATOR == 1
LOG_NUMBER == 2
NEXT_FILE_NUMBER == 3
LAST_SEQUENCE == 4
COMPACTION_POINTER == 5
DELETED_FILES == 6
NEW_FILE == 7
PREV_LOG_NUMBER == 9

\* consts::NUM_LEVELS
NUM_LEVELS == 7

VersionEditNew ==
    [comparator |-> <<>>, log_number |-> <<>>, prev_log_number |-> <<>>,
     next_file_number |-> <<>>, last_sequence |-> <<>>,
     compact_pointers |-> <<>>, deleted_files |-> <<>>, new_files |-> <<>>]

\* tag and varint64 of an optional number
EncodeOption(tag, o) == IF o = <<>> THEN <<>> ELSE EncodeVarint(tag) \o EncodeVarint(o[1])

EncodeSlice(data) == EncodeVarint(Len(data)) \o data

RECURSIVE EncodeCompactPointers(_)
EncodeCompactPointers(ps) ==
    IF ps = <<>> THEN <<>>
    ELSE EncodeVarint(COMPACTION_POINTER) \o EncodeVarint(Head(ps).level)
         \o EncodeSlice(Head(ps).key) \o EncodeCompactPointers(Tail(ps))

RECURSIVE EncodeDeletedFiles(_)
EncodeDeletedFiles(ds) ==
    IF ds = <<>> THEN <<>>
    ELSE EncodeVarint(DELETED_FILES) \o EncodeVarint(Head(ds).level)
         \o EncodeVarint(Head(ds).number) \o EncodeDeletedFiles(Tail(ds))

RECURSIVE EncodeNewFiles(_)
EncodeNewFiles(fs) ==
    IF fs = <<>> THEN <<>>
    ELSE EncodeVarint(NEW_FILE) \o EncodeVarint(Head(fs).level)
         \o EncodeVarint(Head(fs).number) \o EncodeVarint(Head(fs).file_size)
         \o EncodeSlice(Head(fs).smallest) \o EncodeSlice(Head(fs).largest)
         \o EncodeNewFiles(Tail(fs))

\* VersionEdit::encode
VersionEdit_encode(e) ==
    (IF e.comparator = <<>> THEN <<>>
     ELSE EncodeVarint(COMPARATOR) \o EncodeSlice(e.comparator[1]))
    \o EncodeOption(LOG_NUMBER, e.log_number)
    \o EncodeOption(PREV_LOG_NUMBER, e.prev_log_number)
    \o EncodeOption(NEXT_FILE_NUMBER, e.next_file_number)
    \o EncodeOption(LAST_SEQUENCE, e.last_sequence)
    \o EncodeCompactPointers(e.compact_pointers)
    \o EncodeDeletedFiles(e.deleted_files)
    \o EncodeNewFiles(e.new_files)

\* get_level at offset off: [ok, v, len]; a level of NUM_LEVELS or more is
\* an error
get_level(src, off) ==
    Only({[ok |-> l.ok /\ l.v < NUM_LEVELS, v |-> l.v, len |-> l.len]
          : l \in {DecodeVarint(src, off)}})

\* get_internal_key at offset off: [ok, v, len]; InternalKey::decode
\* answers false for an empty slice
get_internal_key(src, off) ==
    Only({[ok |-> k.ok /\ k.v # <<>>, v |-> k.v, len |-> k.len]
          : k \in {read_length_prefixed_slice(src, off)}})

\* one tagged field of VersionEdit::decode, the tag read, its payload at
\* offset off: [ok, len, edit]
decode_field(src, tag, off, e) ==
    IF tag = COMPARATOR
    THEN Only({[ok |-> s.ok, len |-> s.len, edit |-> [e EXCEPT !.comparator = <<s.v>>]]
               : s \in {read_length_prefixed_slice(src, off)}})
    ELSE IF tag \in {LOG_NUMBER, PREV_LOG_NUMBER, NEXT_FILE_NUMBER, LAST_SEQUENCE}
    THEN Only({[ok |-> n.ok, len |-> n.len,
                edit |-> IF tag = LOG_NUMBER THEN [e EXCEPT !.log_number = <<n.v>>]
                         ELSE IF tag = PREV_LOG_NUMBER
                         THEN [e EXCEPT !.prev_log_number = <<n.v>>]
                         ELSE IF tag = NEXT_FILE_NUMBER
                         THEN [e EXCEPT !.next_file_number = <<n.v>>]
                         ELSE [e EXCEPT !.last_sequence = <<n.v>>]]
               : n \in {DecodeVarint(src, off)}})
    ELSE IF tag = COMPACTION_POINTER
    THEN Only({Only({[ok |-> l.ok /\ k.ok, len |-> l.len + k.len,
                      edit |-> [e EXCEPT !.compact_pointers =
                                   Append(@, [level |-> l.v, key |-> k.v])]]
                     : k \in {get_internal_key(src, off + l.len)}})
               : l \in {get_level(src, off)}})
    ELSE IF tag = DELETED_FILES
    THEN Only({Only({[ok |-> l.ok /\ n.ok, len |-> l.len + n.len,
                      edit |-> [e EXCEPT !.deleted_files =
                                   Append(@, [level |-> l.v, number |-> n.v])]]
                     : n \in {DecodeVarint(src, off + l.len)}})
               : l \in {get_level(src, off)}})
    ELSE IF tag = NEW_FILE
    THEN Only({Only({Only({Only({Only({
             [ok |-> l.ok /\ n.ok /\ z.ok /\ s.ok /\ g.ok,
              len |-> l.len + n.len + z.len + s.len + g.len,
              edit |-> [e EXCEPT !.new_files =
                           Append(@, [level |-> l.v, allowed_seeks |-> 0, number |-> n.v,
                                      file_size |-> z.v, smallest |-> s.v,
                                      largest |-> g.v])]]
             : g \in {get_internal_key(src, off + l.len + n.len + z.len + s.len)}})
             : s \in {get_internal_key(src, off + l.len + n.len + z.len)}})
             : z \in {DecodeVarint(src, off + l.len + n.len)}})
             : n \in {DecodeVarint(src, off + l.len)}})
             : l \in {get_level(src, off)}})
    ELSE [ok |-> FALSE, len |-> 0, edit |-> e]

\* the loop of VersionEdit::decode from offset off: [st, edit]
RECURSIVE decode_loop(_, _, _)
decode_loop(src, off, e) ==
    IF off >= Len(src) THEN [st |-> "Ok", edit |-> e]
    ELSE Only({IF ~t.ok THEN [st |-> "Corruption", edit |-> e]
               ELSE Only({IF f.ok THEN decode_loop(src, off + t.len + f.len, f.edit)
                          ELSE [st |-> "Corruption", edit |-> e]
                          : f \in {decode_field(src, t.v, off + t.len, e)}})
               : t \in {DecodeVarint(src, off)}})

\* VersionEdit::decode into the edit e
VersionEdit_decode(e, src) == decode_loop(src, 0, e)

NoEditResult == [op |-> "none", st |-> "Ok", edit |-> VersionEditNew]

(***************************************************************************)
(* version.rs / version_set.rs : VersionBuilder and log_and_apply.  A      *)
(* Version is its files per level, a file [number, smallest, largest] with *)
(* the keys as integers in the comparator's order; a MANIFEST file is the  *)
(* records appended to it and how many of them are fsynced.                *)
(***************************************************************************)
Levels == 0..(NUM_LEVELS - 1)

VersionNew == [files |-> [l \in Levels |-> <<>>], by |-> 0]

\* Vec::sort_by on the smallest keys (stable)
RECURSIVE SortBySmallest(_)
SortBySmallest(fs) ==
    IF fs = <<>> THEN <<>>
    ELSE LET rest == SortBySmallest(SubSeq(fs, 1, Len(fs) - 1))
             f == fs[Len(fs)]
             before == SelectSeq(rest, LAMBDA g : g.smallest <= f.smallest)
             after == SelectSeq(rest, LAMBDA g : g.smallest > f.smallest)
         IN before \o <<f>> \o after

\* VersionBuilder::apply: [deleted, added] per level
VersionBuilder_apply(edit) ==
    LET deleted == [l \in Levels |->
                       {d.number : d \in {edit.deleted_files[i] : i \in
                                             {j \in 1..Len(edit.deleted_files) :
                                                 edit.deleted_files[j].level = l}}}
                       \ {edit.new_files[i].number : i \in
                             {j \in 1..Len(edit.new_files) : edit.new_files[j].level = l}}]
        added == [l \in Levels |-> SelectSeq(edit.new_files, LAMBDA f : f.level = l)]
    IN [deleted |-> deleted, added |-> added]

\* VersionBuilder::maybe_add_file: [st, files], the files of one level
maybe_add_file(files, level, f, deleted) ==
    IF f.number \in deleted THEN [st |-> "ok", files |-> files]
    ELSE IF level = 0 /\ files # <<>> /\ ~(files[Len(files)].largest < f.smallest)
    THEN [st |-> "panic", files |-> files]
    ELSE [st |-> "ok", files |-> Append(files, [number |-> f.number,
                                               smallest |-> f.smallest,
                                               largest |-> f.largest])]

\* VersionBuilder::save_to for one level: the added files in order, before
\* each of them the base files with a smaller smallest key.  A base file
\* that is not smaller is peeked again and again: "hang".
RECURSIVE save_level(_, _, _, _, _)
save_level(level, base, adds, out, deleted) ==
    IF adds = <<>> /\ base = <<>> THEN [st |-> "ok", files |-> out]
    ELSE IF base # <<>> /\ (adds = <<>> \/ Head(base).smallest < Head(adds).smallest)
    THEN Only({IF a.st # "ok" THEN a
               ELSE save_level(level, Tail(base), adds, a.files, deleted)
               : a \in {maybe_add_file(out, level, Head(base), deleted)}})
    ELSE IF base # <<>> THEN [st |-> "hang", files |-> out]
    ELSE Only({IF a.st # "ok" THEN a
               ELSE save_level(level, base, Tail(adds), a.files, deleted)
               : a \in {maybe_add_file(out, level, Head(adds), deleted)}})

\* VersionBuilder::save_to: [st, files]
save_to(base, b) ==
    LET per == [l \in Levels |->
                   save_level(l, base.files[l], SortBySmallest(b.added[l]), <<>>,
                              b.deleted[l])]
    IN [st |-> IF \E l \in Levels : per[l].st = "hang" THEN "hang"
               ELSE IF \E l \in Levels : per[l].st = "panic" THEN "panic" ELSE "ok",
        files |-> [l \in Levels |-> per[l].files]]

\* VersionBuilder::apply, its first loop: the compact pointers of the edit
\* written into the VersionSet's, a Vec<u8> per level (empty when unset)
RECURSIVE apply_compact_pointers(_, _)
apply_compact_pointers(compact_pointers, pointers) ==
    IF pointers = <<>> THEN compact_pointers
    ELSE apply_compact_pointers(
             [compact_pointers EXCEPT ![Head(pointers).level] = <<Head(pointers).key>>],
             Tail(pointers))

\* what a VersionSet holds when log_and_apply is entered
NoEntry == [versions |-> <<>>, log_number |-> 0, prev_log_number |-> 0,
            compact_pointer |-> <<>>]

EntryOf(v) == [versions |-> v.versions, log_number |-> v.log_number,
               prev_log_number |-> v.prev_log_number,
               compact_pointer |-> v.compact_pointer]

\* VersionSet::new with the directory it works in
VersionSetNew ==
    [versions |-> <<VersionNew>>, descriptor_log |-> 0, manifest_file_number |-> 2,
     next_file_number |-> 3, log_number |-> 0, prev_log_number |-> 0,
     compact_pointer |-> [l \in Levels |-> <<>>], entry |-> NoEntry,
     current |-> 1, manifests |-> [n \in {1} |-> [records |-> <<0>>, synced |-> 0]],
     pc |-> "idle", edit |-> 0, version |-> VersionNew, create_new_manifest |-> FALSE,
     res |-> "none", calls |-> 0]

\* log_and_apply up to the MANIFEST: the edit's numbers filled in and the new
\* Version built
log_and_apply_begin(v, edit) ==
    IF edit.log_number # <<>>
       /\ ~(edit.log_number[1] >= v.log_number /\ edit.log_number[1] < v.next_file_number)
    THEN [v EXCEPT !.pc = "panic", !.calls = @ + 1, !.entry = EntryOf(v)]
    ELSE Only({[v EXCEPT !.calls = @ + 1,
                         !.entry = EntryOf(v),
                         !.edit = [edit EXCEPT
                                      !.log_number = IF @ = <<>> THEN <<v.log_number>>
                                                     ELSE @,
                                      !.prev_log_number =
                                          IF @ = <<>> THEN <<v.prev_log_number>> ELSE @],
                         !.compact_pointer =
                             apply_compact_pointers(@, edit.compact_pointers),
                         !.version = [files |-> s.files, by |-> v.calls + 1],
                         !.create_new_manifest = (v.descriptor_log = 0),
                         !.res = "none",
                         !.pc = IF s.st # "ok" THEN s.st
                                ELSE IF v.descriptor_log = 0 THEN "manifest" ELSE "append"]
               : s \in {save_to(v.versions[1], VersionBuilder_apply(edit))}})

\* where log_and_apply goes after writer.sync(), were its error ignored
after_manifest_sync_ErrorIgnored(ok, create_new_manifest) ==
    IF create_new_manifest THEN "current" ELSE "install"

\* where log_and_apply goes after writer.sync()?
after_manifest_sync(ok, create_new_manifest) ==
    IF ~ok THEN "idle" ELSE IF create_new_manifest THEN "current" ELSE "install"

\* the rest of log_and_apply, one call on the environment at a time, `ok`
\* whether that call succeeds; a record of a MANIFEST is the number of the
\* log_and_apply call that wrote it, 0 for a snapshot
log_and_apply_step(v, ok) ==
    IF v.pc = "manifest"
    THEN \* new_writable_file and write_snapshot, the file deleted on an error
         IF ok THEN [v EXCEPT !.descriptor_log = v.manifest_file_number,
                              !.manifests = [n \in DOMAIN @ \cup {v.manifest_file_number} |->
                                                [records |-> <<0>>, synced |-> 0]],
                              !.pc = "append"]
         ELSE [v EXCEPT !.pc = "idle", !.res = "Err"]
    ELSE IF v.pc = "append"
    THEN IF ok THEN [v EXCEPT !.manifests[v.descriptor_log].records = Append(@, v.calls),
                              !.pc = "sync"]
         ELSE [v EXCEPT !.pc = "idle", !.res = "Err"]
    ELSE IF v.pc = "sync"
    THEN [v EXCEPT !.manifests[v.descriptor_log].synced =
                       IF ok THEN Len(v.manifests[v.descriptor_log].records) ELSE @,
                   !.pc = after_manifest_sync(ok, v.create_new_manifest),
                   !.res = IF after_manifest_sync(ok, v.create_new_manifest) = "idle"
                           THEN "Err" ELSE @]
    ELSE IF v.pc = "current"
    THEN \* set_current_file: write_string_to_file_sync of the temporary file
         [v EXCEPT !.pc = IF ok THEN "rename" ELSE "delete_tmp"]
    ELSE IF v.pc = "rename"
    THEN \* Ok(env.rename_file(tmp, CURRENT)?)
         IF ok THEN [v EXCEPT !.current = v.manifest_file_number, !.pc = "install"]
         ELSE [v EXCEPT !.pc = "idle", !.res = "Err"]
    ELSE IF v.pc = "delete_tmp"
    THEN \* Ok(env.delete_file(tmp)?): Ok(()) when the file could be deleted
         IF ok THEN [v EXCEPT !.pc = "install"]
         ELSE [v EXCEPT !.pc = "idle", !.res = "Err"]
    ELSE \* "install": versions.push_front, Ok(())
         [v EXCEPT !.versions = <<v.version>> \o @,
                   !.log_number = v.edit.log_number[1],
                   !.prev_log_number = v.edit.prev_log_number[1],
                   !.pc = "idle", !.res = "Ok"]

(***************************************************************************)
(* builder.rs / db_impl.rs : the engine's open and recovery                 *)
(***************************************************************************)
\* build_table over a memtable's iterator: "ok" (nothing to write), "panic",
\* or "hang" (the while loop never ends).  The loop adds the entry under the
\* iterator and does not move the iterator.
build_table(m) ==
    IF m.table.next = NIL THEN "ok"
    ELSE LET first == NodeKey(m.table, m.table.next)
             key == first.ukey \o <<TagType(first.tag), TagSeq(first.tag), 0, 0, 0, 0, 0, 0>>
         IN Only({IF once.panic THEN "panic"
                  ELSE IF TableBuiler_add(once.tb, key, first.value).panic THEN "panic"
                  ELSE "hang"
                  : once \in {TableBuiler_add(TableBuilerNew(16, 4096), key, first.value)}})

\* DBImplInner::new: nothing opened yet
DBImplInnerNew ==
    [st |-> "closed", last_sequence |-> 0, next_file_number |-> 2, log_number |-> 0,
     log_file_number |-> 0, current_block_offset |-> 0, mem |-> MemTableNew, wal_owner |-> 0]

\* the directory: whether it exists, CURRENT, the MANIFEST CURRENT names (its
\* number and what its edits add up to), the log files, the numbers of the
\* table files
NoDisk == [dir |-> FALSE, current |-> FALSE,
           manifest |-> [number |-> 0, log_number |-> 0, next_file_number |-> 0,
                         last_sequence |-> 0, new_files |-> <<>>],
           logs |-> <<>>, tables |-> {}]

\* DBImplInner::new_db: MANIFEST-000001 with one edit, then CURRENT
new_db(d) ==
    [d EXCEPT !.current = TRUE,
              !.manifest = [number |-> 1, log_number |-> 0, next_file_number |-> 2,
                            last_sequence |-> 0, new_files |-> <<>>]]

\* DBImplInner::recovery_log_file: the loop over the records of one log, and
\* the table written from what they left in the memtable:
\* [st, err, max_sequence, tables], tables the number of file numbers taken
\* by write_level0_table.  Every batch has an entry, so the local memtable is
\* Some exactly when it holds a node.
RECURSIVE recovery_log_file(_, _, _, _, _)
recovery_log_file(file, r, m, max_sequence, new_height) ==
    Only({IF rd.st = "None"
          THEN [st |-> IF m.table.nodes = <<>> THEN "ok" ELSE build_table(m),
                err |-> "none", max_sequence |-> max_sequence,
                tables |-> IF m.table.nodes = <<>> THEN 0 ELSE 1]
          ELSE IF rd.st # "Some"
          THEN [st |-> "err", err |-> rd.st, max_sequence |-> max_sequence, tables |-> 0]
          ELSE LET batch == Assemble(rd.pieces).rec
                   ins == insert_into(m, batch.sequence, batch.entries,
                                      [i \in 1..Len(batch.entries) |-> new_height])
                   last_sequence == batch.sequence + Len(batch.entries) - 1
                   max1 == IF last_sequence > max_sequence THEN last_sequence
                           ELSE max_sequence
               IN IF ins.panic
                  THEN [st |-> "panic", err |-> "none", max_sequence |-> max_sequence,
                        tables |-> 0]
                  ELSE IF ins.mem.memory_usage > WRITE_BUFFER_SIZE
                  THEN IF build_table(ins.mem) # "ok"
                       THEN [st |-> build_table(ins.mem), err |-> "none",
                             max_sequence |-> max1, tables |-> 1]
                       ELSE recovery_log_file(file, rd.r, MemTableNew, max1, new_height)
                  ELSE recovery_log_file(file, rd.r, ins.mem, max1, new_height)
          : rd \in {read_record(file, r)}})

\* DBImplInner::recovery, the loop over the sorted log numbers; replayed
\* counts the logs recovery_log_file was called on
RECURSIVE recovery_logs(_, _, _, _, _)
recovery_logs(d, logs, max_sequence, new_height, replayed) ==
    IF logs = {}
    THEN [st |-> "ok", err |-> "none", max_sequence |-> max_sequence, tables |-> 0,
          replayed |-> replayed]
    ELSE LET number == CHOOSE n \in logs : \A o \in logs : n <= o
         IN Only({IF one.st # "ok"
                  THEN [st |-> one.st, err |-> one.err, max_sequence |-> one.max_sequence,
                        tables |-> one.tables, replayed |-> replayed + 1]
                  ELSE recovery_logs(d, logs \ {number}, one.max_sequence, new_height,
                                     replayed + 1)
                  : one \in {recovery_log_file(d.logs[number].file, LogReaderNew,
                                               MemTableNew, max_sequence, new_height)}})

\* the numbers parse_file_name gives for the files of the directory, whatever
\* their type: 0 for CURRENT, N for MANIFEST-N, N.log and N.ldb
DirNumbers(d) ==
    DOMAIN d.logs \cup d.tables \cup (IF d.current THEN {0, d.manifest.number} ELSE {})

\* VersionSet::recover: the Version built from the edits of the MANIFEST,
\* [st, files]
VersionSet_recover(d) ==
    save_to(VersionNew,
            VersionBuilder_apply([VersionEditNew EXCEPT !.new_files = d.manifest.new_files]))

\* VersionSet::live_files: the numbers of the files of the Version
live_files(files) ==
    UNION {{files[l][i].number : i \in 1..Len(files[l])} : l \in Levels}

\* an open that did not get to a running engine
OpenFailed(st, err, replayed, assigned, d) ==
    [st |-> st, err |-> err, replayed |-> replayed, assigned |-> assigned,
     db |-> DBImplInnerNew, disk |-> d]

\* LevelDB::open: DBImplInner::new, recovery (create_dir, new_db,
\* VersionSet::recover, the check for missing files, the logs), then a fresh
\* log file and memtable.  [st, err, replayed, assigned, db, disk] with st
\* "open", "open_err" (an Err returned, its kind in err) or "open_panic" (a
\* panic or a loop that never ends); assigned holds the file numbers handed
\* out, each with the kind of file made under it.  save_manifest is false
\* unless a table was written, and no table is written without a panic, so
\* log_and_apply is not reached.  build_table makes the table file before its
\* loop; a panic unwinds through DropRelease, which deletes it.
LevelDB_open(d, options, new_height) ==
    LET d0 == [d EXCEPT !.dir = TRUE]
    IN
    IF ~d.current /\ ~options.create_if_missing
    THEN OpenFailed("open_err", "InvalidArgument", 0, {}, d0)
    ELSE IF d.current /\ options.error_if_exists
    THEN OpenFailed("open_err", "InvalidArgument", 0, {}, d0)
    ELSE LET d1 == IF d.current THEN d0 ELSE new_db(d0)
             made == IF d.current THEN {} ELSE {[number |-> 1, kind |-> "manifest"]}
             \* VersionSet::recover
             version == VersionSet_recover(d1)
             next_file_number == d1.manifest.next_file_number + 1
             min_log == d1.manifest.log_number
             prev_log == 0
             expect == live_files(version.files) \ DirNumbers(d1)
             logs == {n \in DOMAIN d1.logs : n >= min_log \/ n = prev_log}
         IN IF version.st # "ok" THEN OpenFailed("open_panic", "none", 0, made, d1)
            ELSE IF expect # {} THEN OpenFailed("open_err", "Corruption", 0, made, d1)
            ELSE Only({
              IF rec.st # "ok"
              THEN OpenFailed(IF rec.st = "err" THEN "open_err" ELSE "open_panic", rec.err,
                              rec.replayed,
                              made \cup (IF rec.tables > 0
                                         THEN {[number |-> next_file_number,
                                                kind |-> "table"]}
                                         ELSE {}),
                              IF rec.st = "hang"
                              THEN [d1 EXCEPT !.tables = @ \cup {next_file_number}]
                              ELSE d1)
              ELSE LET largest == CHOOSE n \in logs : \A o \in logs : n >= o
                       \* mark_file_number_used(*logs.last())
                       next1 == IF logs # {} /\ next_file_number <= largest
                                THEN largest + 1 ELSE next_file_number
                       last_sequence == IF d1.manifest.last_sequence < rec.max_sequence
                                        THEN rec.max_sequence
                                        ELSE d1.manifest.last_sequence
                       new_log_number == next1
                   IN [st |-> "open", err |-> "none", replayed |-> rec.replayed,
                       assigned |-> made \cup {[number |-> new_log_number, kind |-> "log"]},
                       db |-> [st |-> "open", last_sequence |-> last_sequence,
                               next_file_number |-> next1 + 1, log_number |-> min_log,
                               log_file_number |-> new_log_number,
                               current_block_offset |-> LogWriterNew.current_block_offset,
                               mem |-> MemTableNew, wal_owner |-> 0],
                       disk |-> [d1 EXCEPT !.logs =
                                    [n \in DOMAIN d1.logs \cup {new_log_number} |->
                                        IF n = new_log_number
                                        THEN [file |-> LogWriterNew.file, synced |-> 0]
                                        ELSE d1.logs[n]]]]
              : rec \in {recovery_logs(d1, logs, 0, new_height, 0)}})

\* write_inner after add_record(..)?: where the call goes on
after_add_record_ErrorIgnored(ok, sync) == IF sync THEN "sync" ELSE "insert"

after_add_record(ok, sync) ==
    IF ~ok THEN "idle" ELSE IF sync THEN "sync" ELSE "insert"

\* DBImplInner::get: the snapshot is taken, the lookup key is built, and Ok(())
\* is returned with `value` as the caller passed it (empty)
DBImplInner_get(d, key) ==
    [key |-> key, snapshot |-> d.last_sequence, st |-> "Ok", value |-> <<>>]

(***************************************************************************)
(* Initial values.  Every specification starts all components here.        *)
(***************************************************************************)
NoGet == [ukey |-> <<>>, seq |-> -1, t |-> -1, res |-> [st |-> "none", v |-> <<>>]]

LogIdle ==
    /\ logw = LogWriterNew
    /\ logrecs = <<>>
    /\ logr = NoReader
    /\ logout = <<>>

MemIdle ==
    /\ mem = MemTableNew
    /\ memadded = {}
    /\ memget = NoGet

\* Options::default: block_restart_interval 16, block_size 4096
BlkNew(block_restart_interval) ==
    [b |-> BlockBuilderNew(block_restart_interval), stream |-> <<>>, phase |-> "building",
     it |-> NoBlockIter, mode |-> "none", target |-> <<>>]

TableNew(block_restart_interval, block_size) ==
    [tb |-> TableBuilerNew(block_restart_interval, block_size), stream |-> <<>>,
     phase |-> "building"]

TIterNew == [it |-> TwoLevelIteratorNew(Block_from_raw(<<>>)), mode |-> "none",
             scan |-> <<>>, target |-> <<>>]

BlockIdle ==
    /\ blk = BlkNew(16)
    /\ table = TableNew(16, 4096)
    /\ titer = TIterNew

NoMergeOp == [op |-> "none", valid |-> FALSE, key |-> <<>>]

MergeIdle ==
    /\ merge = MergingIteratorNew(<<>>)
    /\ mergeop = NoMergeOp

Threads == {1, 2}

\* a thread outside write_inner: res is what its last call returned, for the
\* batch of `count` entries stamped `sequence`
Returned(w, res) ==
    [pc |-> "idle", sequence |-> w.sequence, count |-> w.count, entries |-> <<>>,
     sync |-> FALSE, res |-> res]

NoWrite == [pc |-> "idle", sequence |-> 0, count |-> 0, entries |-> <<>>, sync |-> FALSE,
            res |-> "none"]

\* Options::default, and what the last open was given and returned
DefaultOptions == [create_if_missing |-> FALSE, error_if_exists |-> FALSE]

NoOpen == [options |-> DefaultOptions, err |-> "none", replayed |-> 0]

\* nothing has happened: no open, no write, no failed flush
NoHistory ==
    [opens |-> 0, stamps |-> 0, acked |-> {}, last |-> NoOpen, assigned |-> {},
     bg |-> FALSE, late |-> {}]

NoDbGet == [key |-> <<>>, snapshot |-> 0, st |-> "none", value |-> <<>>]

DbIdle ==
    /\ db = DBImplInnerNew
    /\ disk = NoDisk
    /\ wr = [t \in Threads |-> NoWrite]
    /\ dbget = NoDbGet
    /\ dbhist = NoHistory

NoSkipIter == [current |-> NIL, started |-> FALSE, seen |-> <<>>, must |-> {}]

SkipIdle ==
    /\ sl = NoInsert(SkipListNew)
    /\ slit = NoSkipIter

CoreIdle == LogIdle /\ MemIdle /\ BlockIdle /\ MergeIdle /\ DbIdle

BatchIdle == wb = [rep |-> WriteBatchNew, ops |-> <<>>, base |-> 0, res |-> NoBatchResult]

EditIdle == ve = [edit |-> VersionEditNew, res |-> NoEditResult]

ManifestIdle == vs = VersionSetNew

\* DBImplInner::new: shutdown false, the channel empty; no thread yet
WorkerIdle == wk = [pc |-> "none", queue |-> 0, shutdown |-> FALSE, calls |-> 0]

NoCmp == [start |-> <<>>, limit |-> <<>>, op |-> "none", out |-> <<>>]

CmpIdle == bwc = NoCmp

\* the components with actions of their own, and all components after the engine
StateIdle == SkipIdle /\ BatchIdle /\ EditIdle /\ ManifestIdle /\ WorkerIdle

NoProbe == [key |-> <<>>, res |-> "none"]

NoBloom == [bits_per_key |-> 0, keys |-> <<>>, overflow_checks |-> FALSE, st |-> "none",
            filter |-> <<>>, probe |-> NoProbe]

BloomIdle == bloom = NoBloom

NoCache ==
    [capacity |-> 0, shard_of |-> <<>>, shards |-> <<>>, calls |-> 0,
     op |-> [kind |-> "none", key |-> 0, value |-> 0, charge |-> 0,
             res |-> [some |-> FALSE, value |-> 0]]]

CacheIdle == cache = NoCache

NoDecoded == [st |-> "none", bits |-> {}, v |-> <<>>, offset |-> 0]

NoCodec == [data |-> <<>>, op |-> "none", res |-> NoDecoded]

CodecIdle == dec = NoCodec

\* DBImplInner::new: imm is None
NoImm == [slot |-> <<>>, res |-> "none", flushes |-> 0]

ImmIdle == imm = NoImm

\* no table file in the directory, no call made
NoTableCache == [ldb |-> {}, sst |-> {}, calls |-> <<>>]

TableCacheIdle == tc = NoTableCache

\* no file at any level, no call made
NoVersionCall ==
    [files |-> [l \in Levels |-> <<>>], trigger |-> 0, op |-> "none",
     res |-> [level |-> 0, score |-> <<0, 1>>]]

VersionIdle == ver = NoVersionCall

RestIdle == StateIdle /\ CmpIdle /\ BloomIdle /\ CacheIdle /\ CodecIdle /\ ImmIdle /\ TableCacheIdle /\ VersionIdle

(***************************************************************************)
(* SpecLog: records of chosen lengths are appended to a fresh writer, then *)
(* a reader is opened on the file and read_record is called repeatedly.    *)
(***************************************************************************)
MaxLogRecords == 3

\* Lengths around the block arithmetic: empty, small, a record ending 3 bytes
\* before a block boundary, one exactly filling a block, one spanning blocks
RecordLens == {0, 3, 10, 32741, 32758, 32761, 65556}

LogInit == CoreIdle /\ RestIdle

LogAddRecord ==
    /\ logr = NoReader
    /\ Len(logrecs) < MaxLogRecords
    /\ \E len \in RecordLens :
          /\ logw' = add_record(logw, Len(logrecs) + 1, len)
          /\ logrecs' = Append(logrecs, len)
    /\ UNCHANGED <<logr, logout>>
    /\ UNCHANGED <<memVars, blockVars, mergeVars, dbVars, restVars>>

LogOpenReader ==
    /\ logr = NoReader
    /\ logr' = LogReaderNew
    /\ UNCHANGED <<logw, logrecs, logout>>
    /\ UNCHANGED <<memVars, blockVars, mergeVars, dbVars, restVars>>

LogReadRecord ==
    /\ logr # NoReader
    /\ Len(logout) <= Len(logrecs)
    /\ LET res == read_record(logw.file, logr)
       IN /\ logr' = res.r
          /\ logout' = Append(logout, [st |-> res.st, rec |-> Assemble(res.pieces)])
    /\ UNCHANGED <<logw, logrecs>>
    /\ UNCHANGED <<memVars, blockVars, mergeVars, dbVars, restVars>>

LogNext == LogAddRecord \/ LogOpenReader \/ LogReadRecord

SpecLog == LogInit /\ [][LogNext]_vars

(***************************************************************************)
(* SpecMem: entries are added to a fresh memtable, each with the height    *)
(* random_height drew for its node, and MemTable::get is called with a     *)
(* lookup key built by LookupKey::new.                                     *)
(***************************************************************************)
MaxMemEntries == 3

\* the sequence numbers of the entries, and the snapshots looked up
MemSeqs == {1, 2}

MemSnapshots == {0, 1, 2, 3}

\* the heights random_height draws
NewHeights == {1, 2}

MemKeys == {<<1>>, <<1, 2>>}

AbsentKey == <<1, 1>>

ValueOf(key, seq) == <<Len(key), seq>>

MemInit == CoreIdle /\ RestIdle

MemAdd ==
    /\ memget = NoGet
    /\ Cardinality(memadded) < MaxMemEntries
    /\ \E key \in MemKeys, seq \in MemSeqs, t \in {Value, Deletetion},
          new_height \in NewHeights :
          LET value == IF t = Value THEN ValueOf(key, seq) ELSE <<>>
              res == MemTable_add(mem, seq, t, key, value, new_height)
          IN /\ ~res.panic
             /\ mem' = res.mem
             /\ memadded' = memadded \cup {[ukey |-> key, seq |-> seq, t |-> t, value |-> value]}
    /\ UNCHANGED memget
    /\ UNCHANGED <<logVars, blockVars, mergeVars, dbVars, restVars>>

MemGet ==
    /\ memget = NoGet
    /\ \E key \in MemKeys \cup {AbsentKey}, seq \in MemSnapshots, t \in {Value, Deletetion} :
          memget' = [ukey |-> key, seq |-> seq, t |-> t,
                     res |-> MemTable_get(mem, LookupKey(key, seq, t))]
    /\ UNCHANGED <<mem, memadded>>
    /\ UNCHANGED <<logVars, blockVars, mergeVars, dbVars, restVars>>

\* the caller drops the result of the get
MemGetReturn ==
    /\ memget # NoGet
    /\ memget' = NoGet
    /\ UNCHANGED <<mem, memadded>>
    /\ UNCHANGED <<logVars, blockVars, mergeVars, dbVars, restVars>>

MemNext == MemAdd \/ MemGet \/ MemGetReturn

SpecMem == MemInit /\ [][MemNext]_vars

(***************************************************************************)
(* C4: the records appended to a fresh log writer are read back exactly,   *)
(* in order, and the read after the last one returns None.                 *)
(***************************************************************************)
ExpectedRead(i) ==
    IF i <= Len(logrecs)
    THEN [st |-> "Some", rec |-> [rec |-> i, len |-> logrecs[i]]]
    ELSE [st |-> "None", rec |-> [rec |-> 0, len |-> -1]]

C4_LogRoundTrip ==
    \A i \in 1..Len(logout) : logout[i] = ExpectedRead(i)

(***************************************************************************)
(* SpecBlock: a strictly increasing stream of pairs is added to a block    *)
(* builder, the block is finished and iterated.                            *)
(* SpecTable: the same for a table builder, whose file is opened as a      *)
(* Table and iterated.                                                     *)
(***************************************************************************)
MaxBlockEntries == 3

BlockKeys == {<<1>>, <<1, 1>>, <<2>>, <<255, 1>>, <<255, 2>>}

ValueFor(key) == key \o <<7>>

RestartIntervals == {1, 2, 16}

\* every add fills a block; two small entries fill a block; Options::default
BlockSizes == {1, 20, 4096}

StreamKeys(stream) == {stream[i].key : i \in 1..Len(stream)}

\* the key extends the stream, strictly increasing
Extends(stream, key) ==
    IF stream = <<>> THEN TRUE ELSE BytesCmp(key, Last(stream).key) = 1

BlockInit ==
    /\ LogIdle /\ MemIdle /\ MergeIdle /\ DbIdle /\ RestIdle
    /\ \E i \in RestartIntervals : blk = BlkNew(i)
    /\ table = TableNew(16, 4096)
    /\ titer = TIterNew

BlkAdd ==
    /\ blk.phase = "building"
    /\ Len(blk.stream) < MaxBlockEntries
    /\ \E key \in BlockKeys :
          /\ Extends(blk.stream, key)
          /\ \E res \in {BlockBuilder_add(blk.b, key, ValueFor(key))} :
                blk' = IF res.panic THEN [blk EXCEPT !.phase = "panic"]
                       ELSE [blk EXCEPT !.b = res.b,
                                        !.stream = Append(blk.stream,
                                                     [key |-> key, value |-> ValueFor(key)])]
    /\ UNCHANGED <<table, titer>>
    /\ UNCHANGED <<logVars, memVars, mergeVars, dbVars, restVars>>

\* BlockBuilder::finish, Block::from_raw and Block::iter
BlkFinish ==
    /\ blk.phase = "building"
    /\ \E block \in {Block_from_raw(BlockBuilder_finish(blk.b))} :
          blk' = IF block.ok THEN [blk EXCEPT !.phase = "open", !.it = BlockIterNew(block)]
                 ELSE [blk EXCEPT !.phase = "corrupt"]
    /\ UNCHANGED <<table, titer>>
    /\ UNCHANGED <<logVars, memVars, mergeVars, dbVars, restVars>>

BlkSeek ==
    /\ blk.phase = "open" /\ blk.it.st = "ok"
    /\ \E target \in BlockKeys :
          blk' = [blk EXCEPT !.it = BlockIter_seek(blk.it, target),
                             !.mode = "seek", !.target = target]
    /\ UNCHANGED <<table, titer>>
    /\ UNCHANGED <<logVars, memVars, mergeVars, dbVars, restVars>>

BlkSeekToFirst ==
    /\ blk.phase = "open" /\ blk.it.st = "ok"
    /\ blk' = [blk EXCEPT !.it = BlockIter_seek_to_first(blk.it),
                          !.mode = "scan", !.target = <<>>]
    /\ UNCHANGED <<table, titer>>
    /\ UNCHANGED <<logVars, memVars, mergeVars, dbVars, restVars>>

BlkNext ==
    /\ blk.phase = "open" /\ blk.it.st = "ok"
    /\ BlockIter_valid(blk.it)
    /\ blk' = [blk EXCEPT !.it = BlockIter_next(blk.it), !.mode = "step", !.target = <<>>]
    /\ UNCHANGED <<table, titer>>
    /\ UNCHANGED <<logVars, memVars, mergeVars, dbVars, restVars>>

BlockNext == BlkAdd \/ BlkFinish \/ BlkSeek \/ BlkSeekToFirst \/ BlkNext

SpecBlock == BlockInit /\ [][BlockNext]_vars

TableInit ==
    /\ LogIdle /\ MemIdle /\ MergeIdle /\ DbIdle /\ RestIdle
    /\ blk = BlkNew(16)
    /\ \E i \in RestartIntervals, bs \in BlockSizes : table = TableNew(i, bs)
    /\ titer = TIterNew

TblAdd ==
    /\ table.phase = "building"
    /\ Len(table.stream) < MaxBlockEntries
    /\ \E key \in BlockKeys :
          /\ Extends(table.stream, key)
          /\ \E res \in {TableBuiler_add(table.tb, key, ValueFor(key))} :
                table' = IF res.panic THEN [table EXCEPT !.phase = "panic"]
                         ELSE [table EXCEPT !.tb = res.tb,
                                            !.stream = Append(table.stream,
                                                         [key |-> key, value |-> ValueFor(key)])]
    /\ UNCHANGED <<blk, titer>>
    /\ UNCHANGED <<logVars, memVars, mergeVars, dbVars, restVars>>

TblFinish ==
    /\ table.phase = "building"
    /\ \E res \in {TableBuiler_finish(table.tb)} :
          table' = IF res.panic THEN [table EXCEPT !.tb = res.tb, !.phase = "panic"]
                   ELSE [table EXCEPT !.tb = res.tb, !.phase = "finished"]
    /\ UNCHANGED <<blk, titer>>
    /\ UNCHANGED <<logVars, memVars, mergeVars, dbVars, restVars>>

\* Table::open on the finished file and Table::iter
TblOpen ==
    /\ table.phase = "finished"
    /\ \E t \in {Table_open(table.tb.file, table.tb.offset)} :
          IF t.ok
          THEN /\ table' = [table EXCEPT !.phase = "open"]
               /\ titer' = [titer EXCEPT !.it = TwoLevelIteratorNew(t.index_block)]
          ELSE /\ table' = [table EXCEPT !.phase = "corrupt"]
               /\ UNCHANGED titer
    /\ UNCHANGED blk
    /\ UNCHANGED <<logVars, memVars, mergeVars, dbVars, restVars>>

Entry(it) == [key |-> TwoLevel_key(it), value |-> TwoLevel_value(it)]

TblSeekToFirst ==
    /\ table.phase = "open" /\ titer.it.st = "ok"
    /\ \E it \in {Lift(TwoLevel_seek_to_first(table.tb.file, titer.it))} :
          titer' = [it |-> it, mode |-> "scan", target |-> <<>>,
                    scan |-> IF it.st = "ok" /\ TwoLevel_valid(it) THEN <<Entry(it)>> ELSE <<>>]
    /\ UNCHANGED <<blk, table>>
    /\ UNCHANGED <<logVars, memVars, mergeVars, dbVars, restVars>>

TblNext ==
    /\ table.phase = "open" /\ titer.it.st = "ok"
    /\ TwoLevel_valid(titer.it)
    /\ \E it \in {Lift(TwoLevel_next(table.tb.file, titer.it))} :
          titer' = [titer EXCEPT !.it = it,
                       !.scan = IF titer.mode = "scan" /\ it.st = "ok" /\ TwoLevel_valid(it)
                                THEN Append(titer.scan, Entry(it)) ELSE titer.scan]
    /\ UNCHANGED <<blk, table>>
    /\ UNCHANGED <<logVars, memVars, mergeVars, dbVars, restVars>>

TblSeek ==
    /\ table.phase = "open" /\ titer.it.st = "ok"
    /\ \E target \in BlockKeys :
          titer' = [it |-> Lift(TwoLevel_seek(table.tb.file, titer.it, target)),
                    mode |-> "seek", target |-> target, scan |-> <<>>]
    /\ UNCHANGED <<blk, table>>
    /\ UNCHANGED <<logVars, memVars, mergeVars, dbVars, restVars>>

TableNext == TblAdd \/ TblFinish \/ TblOpen \/ TblSeekToFirst \/ TblNext \/ TblSeek

SpecTable == TableInit /\ [][TableNext]_vars

(***************************************************************************)
(* SpecMerge: a merging iterator over children holding disjoint sorted     *)
(* runs of keys, driven by any sequence of its five positioning calls.     *)
(***************************************************************************)
MaxMergeKey == 4

MergeChildren == 2

MergeKeys == {<<k>> : k \in 1..MaxMergeKey}

\* the sorted run of the keys that `owner` gives to child c
RECURSIVE RunOf(_, _, _)
RunOf(owner, c, k) ==
    IF k > MaxMergeKey THEN <<>>
    ELSE (IF owner[k] = c THEN <<(<<k>>)>> ELSE <<>>) \o RunOf(owner, c, k + 1)

AllMergeKeys(m) == UNION {{m.children[i].keys[j] : j \in 1..Len(m.children[i].keys)}
                          : i \in 1..Len(m.children)}

MergeInit ==
    /\ LogIdle /\ MemIdle /\ BlockIdle /\ DbIdle /\ RestIdle
    /\ \E owner \in [1..MaxMergeKey -> 0..MergeChildren] :
          merge = MergingIteratorNew([c \in 1..MergeChildren |->
                                         [keys |-> RunOf(owner, c, 1), pos |-> 0]])
    /\ mergeop = NoMergeOp

Before(op) ==
    [op |-> op, valid |-> Merge_valid(merge),
     key |-> IF Merge_valid(merge) THEN Merge_key(merge) ELSE <<>>]

MergeSeekToFirst ==
    /\ merge.st = "ok"
    /\ merge' = Merge_seek_to_first(merge)
    /\ mergeop' = Before("seek_to_first")
    /\ UNCHANGED <<logVars, memVars, blockVars, dbVars, restVars>>

MergeSeekToLast ==
    /\ merge.st = "ok"
    /\ merge' = Merge_seek_to_last(merge)
    /\ mergeop' = Before("seek_to_last")
    /\ UNCHANGED <<logVars, memVars, blockVars, dbVars, restVars>>

MergeSeek ==
    /\ merge.st = "ok"
    /\ \E target \in MergeKeys : merge' = Merge_seek(merge, target)
    /\ mergeop' = Before("seek")
    /\ UNCHANGED <<logVars, memVars, blockVars, dbVars, restVars>>

MergeNext ==
    /\ merge.st = "ok"
    /\ Merge_valid(merge)
    /\ merge' = Merge_next(merge)
    /\ mergeop' = Before("next")
    /\ UNCHANGED <<logVars, memVars, blockVars, dbVars, restVars>>

MergePrev ==
    /\ merge.st = "ok"
    /\ Merge_valid(merge)
    /\ merge' = Merge_prev(merge)
    /\ mergeop' = Before("prev")
    /\ UNCHANGED <<logVars, memVars, blockVars, dbVars, restVars>>

MergeNextStep == MergeSeekToFirst \/ MergeSeekToLast \/ MergeSeek \/ MergeNext \/ MergePrev

SpecMerge == MergeInit /\ [][MergeNextStep]_vars

(***************************************************************************)
(* Spec: the engine.  A process opens the directory, its threads write     *)
(* batches and read keys, appends and fsyncs may fail, and the process may *)
(* die at any point, losing what a log had not fsynced.                    *)
(***************************************************************************)
MaxWrites == 2

MaxOpens == 2

MaxDirRecords == 2

DbKeys == {<<1>>, <<2>>}

\* SkipList::random_height in the engine: the tower heights change the shape
\* of a memtable, never what it holds (SpecMem draws them from NewHeights)
DbHeights == {1}

DbOptions == [create_if_missing : BOOLEAN, error_if_exists : BOOLEAN]

DbBatches ==
    {<<[t |-> Value, key |-> <<1>>, value |-> <<7>>]>>,
     <<[t |-> Deletetion, key |-> <<1>>, value |-> <<>>]>>,
     <<[t |-> Value, key |-> <<1>>, value |-> <<8>>],
       [t |-> Value, key |-> <<2>>, value |-> <<9>>]>>}

Init == CoreIdle /\ RestIdle

Open ==
    /\ db.st = "closed"
    /\ dbhist.opens < MaxOpens
    /\ \E options \in DbOptions, new_height \in DbHeights :
          \E res \in {LevelDB_open(disk, options, new_height)} :
             /\ db' = [res.db EXCEPT !.st = res.st]
             /\ disk' = res.disk
             /\ dbhist' = [dbhist EXCEPT
                   !.opens = @ + 1,
                   !.last = [options |-> options, err |-> res.err,
                             replayed |-> res.replayed],
                   !.assigned = @ \cup {[number |-> a.number, kind |-> a.kind,
                                         open |-> dbhist.opens + 1] : a \in res.assigned}]
    /\ UNCHANGED <<wr, dbget>>
    /\ UNCHANGED <<logVars, memVars, blockVars, mergeVars, restVars>>

\* write_inner, under the versions mutex: the batch is stamped
WriteStamp(t) ==
    /\ db.st = "open"
    /\ wr[t].pc = "idle"
    /\ dbhist.stamps < MaxWrites
    /\ \E entries \in DbBatches, sync \in BOOLEAN :
          wr' = [wr EXCEPT ![t] = [pc |-> "log", sequence |-> db.last_sequence + 1,
                                   count |-> Len(entries), entries |-> entries,
                                   sync |-> sync, res |-> "none"]]
    /\ dbhist' = [dbhist EXCEPT !.stamps = @ + 1,
                                !.late = IF dbhist.bg THEN @ \cup {t} ELSE @ \ {t}]
    /\ UNCHANGED <<db, disk, dbget>>
    /\ UNCHANGED <<logVars, memVars, blockVars, mergeVars, restVars>>

\* write_inner: the wal mutex is taken and the record appended, or the append
\* fails and Err is returned
WriteLog(t) ==
    /\ db.st = "open"
    /\ wr[t].pc = "log"
    /\ db.wal_owner = 0
    /\ \E ok \in BOOLEAN :
          \E w \in {add_record([file |-> disk.logs[db.log_file_number].file,
                                current_block_offset |-> db.current_block_offset],
                               [sequence |-> wr[t].sequence, entries |-> wr[t].entries],
                               BatchSize(wr[t].entries))} :
             /\ disk' = IF ok THEN [disk EXCEPT !.logs[db.log_file_number].file = w.file]
                        ELSE disk
             /\ db' = [db EXCEPT
                          !.wal_owner = IF after_add_record(ok, wr[t].sync) = "idle"
                                        THEN 0 ELSE t,
                          !.current_block_offset = IF ok THEN w.current_block_offset
                                                   ELSE @]
             /\ wr' = [wr EXCEPT ![t] = IF after_add_record(ok, wr[t].sync) = "idle"
                                         THEN Returned(wr[t], "Err")
                                         ELSE [wr[t] EXCEPT
                                                  !.pc = after_add_record(ok, wr[t].sync)]]
    /\ UNCHANGED <<dbget, dbhist>>
    /\ UNCHANGED <<logVars, memVars, blockVars, mergeVars, restVars>>

\* write_inner with options.sync: the fsync, or its failure returned
WriteSync(t) ==
    /\ db.st = "open"
    /\ wr[t].pc = "sync"
    /\ \E ok \in BOOLEAN :
          /\ disk' = IF ok THEN [disk EXCEPT !.logs[db.log_file_number].synced =
                                     Len(disk.logs[db.log_file_number].file)]
                     ELSE disk
          /\ db' = IF ok THEN db ELSE [db EXCEPT !.wal_owner = 0]
          /\ wr' = [wr EXCEPT ![t] = IF ok THEN [wr[t] EXCEPT !.pc = "insert"]
                                      ELSE Returned(wr[t], "Err")]
    /\ UNCHANGED <<dbget, dbhist>>
    /\ UNCHANGED <<logVars, memVars, blockVars, mergeVars, restVars>>

\* write_inner: insert_into the live memtable, Ok(()), the guards dropped
WriteInsert(t) ==
    /\ db.st = "open"
    /\ wr[t].pc = "insert"
    /\ \E new_heights \in [1..Len(wr[t].entries) -> DbHeights] :
          \E ins \in {insert_into(db.mem, wr[t].sequence, wr[t].entries, new_heights)} :
             IF ins.panic
             THEN /\ db' = [db EXCEPT !.st = "write_panic"]
                  /\ UNCHANGED <<wr, dbhist>>
             ELSE /\ db' = [db EXCEPT !.mem = ins.mem, !.wal_owner = 0]
                  /\ wr' = [wr EXCEPT ![t] = Returned(wr[t], "Ok")]
                  /\ dbhist' = [dbhist EXCEPT
                        !.acked = IF wr[t].sync
                                  THEN @ \cup {[sequence |-> wr[t].sequence,
                                                entries |-> wr[t].entries]}
                                  ELSE @]
    /\ UNCHANGED <<disk, dbget>>
    /\ UNCHANGED <<logVars, memVars, blockVars, mergeVars, restVars>>

Get ==
    /\ db.st = "open"
    /\ dbget = NoDbGet
    /\ \E key \in DbKeys : dbget' = DBImplInner_get(db, key)
    /\ UNCHANGED <<db, disk, wr, dbhist>>
    /\ UNCHANGED <<logVars, memVars, blockVars, mergeVars, restVars>>

GetReturn ==
    /\ dbget # NoDbGet
    /\ dbget' = NoDbGet
    /\ UNCHANGED <<db, disk, wr, dbhist>>
    /\ UNCHANGED <<logVars, memVars, blockVars, mergeVars, restVars>>

\* the process dies: a log keeps what was fsynced and any part of the rest
Crash ==
    /\ db.st # "closed"
    /\ db' = DBImplInnerNew
    /\ wr' = [t \in Threads |-> NoWrite]
    /\ dbget' = NoDbGet
    /\ dbhist' = [dbhist EXCEPT !.bg = FALSE, !.late = {}]
    /\ \E keep \in [DOMAIN disk.logs -> 0..MaxWrites] :
          /\ \A n \in DOMAIN disk.logs :
                keep[n] >= disk.logs[n].synced /\ keep[n] <= Len(disk.logs[n].file)
          /\ disk' = [disk EXCEPT !.logs =
                         [n \in DOMAIN disk.logs |->
                             [file |-> SubSeq(disk.logs[n].file, 1, keep[n]),
                              synced |-> keep[n]]]]
    /\ UNCHANGED <<logVars, memVars, blockVars, mergeVars, restVars>>

Next ==
    \/ Open
    \/ \E t \in Threads : WriteStamp(t)
    \/ \E t \in Threads : WriteLog(t)
    \/ \E t \in Threads : WriteSync(t)
    \/ \E t \in Threads : WriteInsert(t)
    \/ Get
    \/ GetReturn
    \/ Crash

Spec == Init /\ [][Next]_vars

(***************************************************************************)
(* SpecSkip: one thread inserts into a skip list, store by store, while    *)
(* another traverses it with a SkipListIter.                               *)
(***************************************************************************)
MaxSkipNodes == 3

SkipKeys == {[ukey |-> <<k>>, tag |-> 0, value |-> <<>>] : k \in 1..3}

\* the keys of the nodes whose insert has returned
Inserted(w) ==
    {w.list.nodes[i].key : i \in (1..Len(w.list.nodes)) \ {w.new_ptr}}

SkipInit == CoreIdle /\ RestIdle

SkipInsertBegin ==
    /\ sl.pc = "idle"
    /\ Len(sl.list.nodes) < MaxSkipNodes
    /\ \E key \in SkipKeys \ Inserted(sl), new_height \in NewHeights :
          sl' = insert_begin(sl.list, key, new_height)
    /\ UNCHANGED <<slit, exceptSkip>>

SkipInsertStore ==
    /\ sl.pc \in {"link", "take", "set", "publish"}
    /\ sl' = insert_store(sl)
    /\ UNCHANGED <<slit, exceptSkip>>

\* the position a traversal starts from, and the keys it has to visit
Started(current, must) ==
    [current |-> current, started |-> TRUE,
     seen |-> IF current = NIL THEN <<>> ELSE <<NodeKey(sl.list, current)>>,
     must |-> must]

SkipIterSeekToFirst ==
    /\ slit' = Started(NodeNext(sl.list, HEAD), Inserted(sl))
    /\ UNCHANGED <<sl, exceptSkip>>

SkipIterSeek ==
    /\ \E target \in SkipKeys :
          slit' = Started(SkipListIter_seek(sl.list, target),
                          {k \in Inserted(sl) : KeyCompare(k, target) >= 0})
    /\ UNCHANGED <<sl, exceptSkip>>

SkipIterNext ==
    /\ slit.current # NIL
    /\ \E next \in {NodeNext(sl.list, slit.current)} :
          slit' = [slit EXCEPT !.current = next,
                               !.seen = IF next = NIL THEN @
                                        ELSE Append(@, NodeKey(sl.list, next))]
    /\ UNCHANGED <<sl, exceptSkip>>

SkipNext ==
    \/ SkipInsertBegin \/ SkipInsertStore
    \/ SkipIterSeekToFirst \/ SkipIterSeek \/ SkipIterNext

SpecSkip == SkipInit /\ [][SkipNext]_vars

(***************************************************************************)
(* SpecBatch: a WriteBatch built by put, delete, append and set_sequence,  *)
(* then iterated or inserted into a fresh memtable.                        *)
(***************************************************************************)
MaxBatchOps == 3

BatchKeys == {<<1>>, <<2>>}

\* one value is long enough for its length to take two bytes
BatchValues == {<<>>, <<9>>, [i \in 1..130 |-> 7]}

BatchSequences == {0, 5}

\* the batches append takes its operations from, with the calls that built them
SourceBatches ==
    {[rep |-> WriteBatchNew, ops |-> <<>>]}
    \cup {[rep |-> WriteBatch_put(WriteBatchNew, k, v),
           ops |-> <<[t |-> Value, key |-> k, value |-> v]>>]
          : k \in BatchKeys, v \in BatchValues}
    \cup {[rep |-> WriteBatch_delete(WriteBatch_put(WriteBatchNew, k, <<9>>), k),
           ops |-> <<[t |-> Value, key |-> k, value |-> <<9>>],
                     [t |-> Deletetion, key |-> k, value |-> <<>>]>>]
          : k \in BatchKeys}

BatchInit == CoreIdle /\ RestIdle

BatchPut ==
    /\ Len(wb.ops) < MaxBatchOps
    /\ \E key \in BatchKeys, value \in BatchValues :
          wb' = [wb EXCEPT !.rep = WriteBatch_put(@, key, value),
                           !.ops = Append(@, [t |-> Value, key |-> key, value |-> value]),
                           !.res = NoBatchResult]
    /\ UNCHANGED exceptBatch

BatchDelete ==
    /\ Len(wb.ops) < MaxBatchOps
    /\ \E key \in BatchKeys :
          wb' = [wb EXCEPT !.rep = WriteBatch_delete(@, key),
                           !.ops = Append(@, [t |-> Deletetion, key |-> key, value |-> <<>>]),
                           !.res = NoBatchResult]
    /\ UNCHANGED exceptBatch

BatchAppend ==
    /\ \E source \in SourceBatches :
          /\ Len(wb.ops) + Len(source.ops) <= MaxBatchOps
          /\ wb' = [wb EXCEPT !.rep = WriteBatch_append(@, source.rep),
                              !.ops = @ \o source.ops,
                              !.res = NoBatchResult]
    /\ UNCHANGED exceptBatch

BatchSetSequence ==
    /\ \E seq \in BatchSequences :
          wb' = [wb EXCEPT !.rep = WriteBatch_set_sequence(@, seq), !.base = seq,
                           !.res = NoBatchResult]
    /\ UNCHANGED exceptBatch

BatchIterate ==
    /\ \E it \in {iterate(wb.rep)} :
          wb' = [wb EXCEPT !.res = [op |-> "iterate", st |-> it.st, calls |-> it.calls,
                                    mem |-> MemTableNew]]
    /\ UNCHANGED exceptBatch

BatchInsertInto ==
    /\ \E new_heights \in {[i \in 1..Len(wb.ops) |-> 1]} :
       \E ins \in {WriteBatch_insert_into(wb.rep, MemTableNew, new_heights)} :
          wb' = [wb EXCEPT !.res = [op |-> "insert_into", st |-> ins.st, calls |-> <<>>,
                                    mem |-> ins.mem]]
    /\ UNCHANGED exceptBatch

BatchNext ==
    \/ BatchPut \/ BatchDelete \/ BatchAppend \/ BatchSetSequence
    \/ BatchIterate \/ BatchInsertInto

SpecBatch == BatchInit /\ [][BatchNext]_vars

(***************************************************************************)
(* SpecEdit: a VersionEdit built through its setters, then encoded and     *)
(* decoded into a fresh edit.                                              *)
(***************************************************************************)
MaxEditItems == 2

\* numbers whose varints take one and two bytes
EditNumbers == {0, 300}

EditLevels == {0, NUM_LEVELS - 1, NUM_LEVELS}

\* InternalKey::empty() and the internal key of user key 5, sequence 1, Value
EditKeys == {<<>>, <<5, 1, 1, 0, 0, 0, 0, 0, 0>>}

EditComparators == {<<108, 101, 118>>}

EditItems(e) == Len(e.compact_pointers) + Len(e.deleted_files) + Len(e.new_files)

EditInit == CoreIdle /\ RestIdle

EditSetComparator ==
    /\ \E name \in EditComparators :
          ve' = [edit |-> [ve.edit EXCEPT !.comparator = <<name>>], res |-> NoEditResult]
    /\ UNCHANGED exceptEdit

EditSetNumber ==
    /\ \E num \in {300} :
          \/ ve' = [edit |-> [ve.edit EXCEPT !.log_number = <<num>>], res |-> NoEditResult]
          \/ ve' = [edit |-> [ve.edit EXCEPT !.prev_log_number = <<num>>],
                    res |-> NoEditResult]
          \/ ve' = [edit |-> [ve.edit EXCEPT !.next_file_number = <<num>>],
                    res |-> NoEditResult]
          \/ ve' = [edit |-> [ve.edit EXCEPT !.last_sequence = <<num>>],
                    res |-> NoEditResult]
    /\ UNCHANGED exceptEdit

EditAddCompactPointer ==
    /\ EditItems(ve.edit) < MaxEditItems
    /\ \E level \in EditLevels, key \in EditKeys :
          ve' = [edit |-> [ve.edit EXCEPT !.compact_pointers =
                              Append(@, [level |-> level, key |-> key])],
                 res |-> NoEditResult]
    /\ UNCHANGED exceptEdit

EditAddDeleteFile ==
    /\ EditItems(ve.edit) < MaxEditItems
    /\ \E level \in EditLevels, file_num \in EditNumbers :
          ve' = [edit |-> [ve.edit EXCEPT !.deleted_files =
                              Append(@, [level |-> level, number |-> file_num])],
                 res |-> NoEditResult]
    /\ UNCHANGED exceptEdit

EditAddNewFile ==
    /\ EditItems(ve.edit) < MaxEditItems
    /\ \E level \in EditLevels, file_num \in EditNumbers, smallest \in EditKeys :
          ve' = [edit |-> [ve.edit EXCEPT !.new_files =
                              Append(@, [level |-> level, allowed_seeks |-> 0,
                                         number |-> file_num, file_size |-> 300,
                                         smallest |-> smallest,
                                         largest |-> <<5, 1, 1, 0, 0, 0, 0, 0, 0>>])],
                 res |-> NoEditResult]
    /\ UNCHANGED exceptEdit

EditRoundTrip ==
    /\ \E d \in {VersionEdit_decode(VersionEditNew, VersionEdit_encode(ve.edit))} :
          ve' = [ve EXCEPT !.res = [op |-> "decode", st |-> d.st, edit |-> d.edit]]
    /\ UNCHANGED exceptEdit

EditNext ==
    \/ EditSetComparator \/ EditSetNumber \/ EditAddCompactPointer
    \/ EditAddDeleteFile \/ EditAddNewFile \/ EditRoundTrip

SpecEdit == EditInit /\ [][EditNext]_vars

(***************************************************************************)
(* SpecManifest: log_and_apply called with edits on a recovered            *)
(* VersionSet, each call on the environment succeeding or failing.         *)
(***************************************************************************)
MaxEdits == 3

ManifestEdits ==
    {[VersionEditNew EXCEPT !.new_files = <<[level |-> 1, number |-> 5, smallest |-> 1,
                                            largest |-> 2]>>],
     [VersionEditNew EXCEPT !.new_files = <<[level |-> 1, number |-> 6, smallest |-> 3,
                                            largest |-> 4]>>],
     [VersionEditNew EXCEPT !.new_files = <<[level |-> 0, number |-> 7, smallest |-> 1,
                                            largest |-> 4]>>],
     [VersionEditNew EXCEPT !.new_files = <<[level |-> 0, number |-> 8, smallest |-> 2,
                                            largest |-> 5]>>],
     [VersionEditNew EXCEPT !.new_files = <<[level |-> 1, number |-> 9, smallest |-> 2,
                                            largest |-> 3]>>],
     [VersionEditNew EXCEPT !.deleted_files = <<[level |-> 1, number |-> 5]>>],
     [VersionEditNew EXCEPT !.log_number = <<5>>],
     [VersionEditNew EXCEPT !.compact_pointers = <<[level |-> 1, key |-> 2]>>],
     VersionEditNew}

ManifestInit == CoreIdle /\ RestIdle

VsLogAndApply ==
    /\ vs.pc = "idle"
    /\ vs.calls < MaxEdits
    /\ \E edit \in ManifestEdits : vs' = log_and_apply_begin(vs, edit)
    /\ UNCHANGED exceptManifest

VsEnvCall ==
    /\ vs.pc \in {"manifest", "append", "sync", "current", "rename", "delete_tmp"}
    /\ \E ok \in BOOLEAN : vs' = log_and_apply_step(vs, ok)
    /\ UNCHANGED exceptManifest

VsInstall ==
    /\ vs.pc = "install"
    /\ vs' = log_and_apply_step(vs, TRUE)
    /\ UNCHANGED exceptManifest

ManifestNext == VsLogAndApply \/ VsEnvCall \/ VsInstall

SpecManifest == ManifestInit /\ [][ManifestNext]_vars

(***************************************************************************)
(* Two-level iteration over a file of data blocks, some of them empty      *)
(***************************************************************************)
MaxInnerBlocks == 3

MaxInnerEntries == 2

\* the entry counts of the data blocks, in index order
InnerShapes ==
    UNION {[1..n -> 0..MaxInnerEntries] : n \in 0..MaxInnerBlocks}

\* the entries of data block i
InnerEntries(i, n) == [j \in 1..n |-> [key |-> <<i, j>>, value |-> ValueFor(<<i, j>>)]]

RECURSIVE FillBlock(_, _, _)
FillBlock(b, entries, j) ==
    IF j > Len(entries) THEN b
    ELSE FillBlock(BlockBuilder_add(b, entries[j].key, entries[j].value).b, entries, j + 1)

\* data block i written at the file's end and its handle added to the index
\* block under a key after the block's keys
RECURSIVE AssembleFrom(_, _, _)
AssembleFrom(tb, shape, i) ==
    IF i > Len(shape) THEN tb
    ELSE LET block == FillBlock(BlockBuilderNew(tb.block_restart_interval),
                                InnerEntries(i, shape[i]), 1)
             handle == BlockHandleNew(tb.offset, Len(BlockBuilder_finish(block)))
         IN AssembleFrom([write_block(tb, block) EXCEPT
                             !.index_block = BlockBuilder_add(tb.index_block, <<i, 255>>,
                                                              BlockHandle_encode(handle)).b,
                             !.num_entries = tb.num_entries + shape[i]],
                         shape, i + 1)

RECURSIVE ShapeStream(_, _)
ShapeStream(shape, i) ==
    IF i > Len(shape) THEN <<>>
    ELSE InnerEntries(i, shape[i]) \o ShapeStream(shape, i + 1)

TwoLevelInit ==
    /\ LogIdle /\ MemIdle /\ MergeIdle /\ DbIdle /\ RestIdle
    /\ blk = BlkNew(16)
    /\ \E shape \in InnerShapes, interval \in RestartIntervals :
          \E tb \in {AssembleFrom(TableBuilerNew(interval, 4096), shape, 1)} :
             /\ table = [tb |-> tb, stream |-> ShapeStream(shape, 1), phase |-> "open"]
             /\ titer = [TIterNew EXCEPT
                            !.it = TwoLevelIteratorNew(
                                      Block_from_raw(BlockBuilder_finish(tb.index_block)))]

TwoLevelSeekToFirst ==
    /\ titer.it.st = "ok"
    /\ \E it \in {Lift(TwoLevel_seek_to_first(table.tb.file, titer.it))} :
          titer' = [it |-> it, mode |-> "scan", target |-> <<>>,
                    scan |-> IF it.st = "ok" /\ TwoLevel_valid(it) THEN <<Entry(it)>> ELSE <<>>]
    /\ UNCHANGED <<blk, table>>
    /\ UNCHANGED <<logVars, memVars, mergeVars, dbVars, restVars>>

TwoLevelScanNext ==
    /\ titer.mode = "scan" /\ titer.it.st = "ok"
    /\ TwoLevel_valid(titer.it)
    /\ \E it \in {Lift(TwoLevel_next(table.tb.file, titer.it))} :
          titer' = [titer EXCEPT !.it = it,
                       !.scan = IF it.st = "ok" /\ TwoLevel_valid(it)
                                THEN Append(titer.scan, Entry(it)) ELSE titer.scan]
    /\ UNCHANGED <<blk, table>>
    /\ UNCHANGED <<logVars, memVars, mergeVars, dbVars, restVars>>

TwoLevelNext == TwoLevelSeekToFirst \/ TwoLevelScanNext

SpecTwoLevel == TwoLevelInit /\ [][TwoLevelNext]_vars

(***************************************************************************)
(* Memtable forward scans: adds of pairwise distinct (user key, sequence), *)
(* then MemTable::iter with seek_to_first and next                         *)
(***************************************************************************)
\* the (user key, sequence) pairs added so far
AddedPairs == {<<e.ukey, e.seq>> : e \in memadded}

ScanAdd ==
    /\ Cardinality(memadded) < MaxMemEntries
    /\ \E key \in MemKeys, seq \in MemSeqs, t \in {Value, Deletetion},
          new_height \in NewHeights :
          /\ <<key, seq>> \notin AddedPairs
          /\ \E value \in {IF t = Value THEN ValueOf(key, seq) ELSE <<>>} :
                \E res \in {MemTable_add(mem, seq, t, key, value, new_height)} :
                   /\ ~res.panic
                   /\ mem' = res.mem
                   /\ memadded' = memadded \cup
                                     {[ukey |-> key, seq |-> seq, t |-> t, value |-> value]}
    /\ slit' = NoSkipIter
    /\ UNCHANGED <<memget, sl, exceptSkipMem>>

\* MemTableIterator::seek_to_first
ScanSeekToFirst ==
    /\ \E first \in {NodeNext(mem.table, HEAD)} :
          slit' = [current |-> first, started |-> TRUE,
                   seen |-> IF first = NIL THEN <<>> ELSE <<NodeKey(mem.table, first)>>,
                   must |-> {}]
    /\ UNCHANGED <<memVars, sl, exceptSkipMem>>

\* MemTableIterator::next on a valid iterator
ScanStep ==
    /\ slit.started /\ slit.current # NIL
    /\ \E next \in {NodeNext(mem.table, slit.current)} :
          slit' = [slit EXCEPT !.current = next,
                               !.seen = IF next = NIL THEN @
                                        ELSE Append(@, NodeKey(mem.table, next))]
    /\ UNCHANGED <<memVars, sl, exceptSkipMem>>

ScanNext == ScanAdd \/ ScanSeekToFirst \/ ScanStep

SpecScan == MemInit /\ [][ScanNext]_vars

(***************************************************************************)
(* Memtable lookups: what a get for (k, s) should see among the entries    *)
(* added so far.                                                           *)
(***************************************************************************)
PairwiseDistinct(added) ==
    \A a, b \in added : (a.ukey = b.ukey /\ a.seq = b.seq) => a = b

VisibleEntries(added, k, s) == {e \in added : e.ukey = k /\ e.seq <= s}

NewestVisible(added, k, s) ==
    CHOOSE e \in VisibleEntries(added, k, s) :
        \A f \in VisibleEntries(added, k, s) : f.seq <= e.seq

ExpectedGet(added, k, s) ==
    IF VisibleEntries(added, k, s) = {} THEN [st |-> "NotFound", v |-> <<>>]
    ELSE IF NewestVisible(added, k, s).t = Value
         THEN [st |-> "Value", v |-> NewestVisible(added, k, s).value]
         ELSE [st |-> "Deleted", v |-> <<>>]

(***************************************************************************)
(* C8: after adds with pairwise distinct (key, seq), a get whose lookup    *)
(* key for (k, s) is built with ValueType::Value returns the value of the  *)
(* entry for k with the largest seq <= s when it is a Value, Deleted when  *)
(* it is a Deletion, and NotFound when k has no entry with seq <= s.       *)
(***************************************************************************)
C8_MemGetValueLookup ==
    (memget # NoGet /\ memget.t = Value /\ PairwiseDistinct(memadded))
        => memget.res = ExpectedGet(memadded, memget.ukey, memget.seq)

\* C8 as stated, for a lookup key for (k, s) of either type
C8_MemGetAnyLookup ==
    (memget # NoGet /\ PairwiseDistinct(memadded))
        => memget.res = ExpectedGet(memadded, memget.ukey, memget.seq)

\* a get at a snapshot that hides a newer version of the key returned the
\* older one, out of a memtable of three entries
C8_Witness ==
    /\ memget # NoGet
    /\ memget.t = Value
    /\ PairwiseDistinct(memadded)
    /\ Cardinality(memadded) >= 3
    /\ memget.res.st = "Value"
    /\ \E e, f \in memadded :
          /\ e.ukey = memget.ukey /\ f.ukey = memget.ukey
          /\ e.seq <= memget.seq /\ memget.seq < f.seq
          /\ memget.res.v = e.value

(***************************************************************************)
(* C5: seeking a finished block's iterator to a key that was added         *)
(* terminates with the iterator valid on that key and its value.           *)
(***************************************************************************)
C5_BlockSeekFindsKey ==
    (blk.phase = "open" /\ blk.mode = "seek" /\ blk.target \in StreamKeys(blk.stream))
        => /\ blk.it.st = "ok"
           /\ BlockIter_valid(blk.it)
           /\ BlockIter_key(blk.it) = blk.target
           /\ BlockIter_value(blk.it) = ValueFor(blk.target)

(***************************************************************************)
(* C6: a strictly increasing stream added to a table builder is built      *)
(* without failure, and a scan of the opened table from seek_to_first with *)
(* next yields the stream in order, the iterator becoming invalid exactly  *)
(* after the last pair.                                                    *)
(***************************************************************************)
C6_TableScanYieldsStream ==
    /\ table.phase \notin {"panic", "corrupt"}
    /\ (table.phase = "open" /\ titer.mode = "scan")
          => /\ titer.it.st = "ok"
             /\ titer.scan = SubSeq(table.stream, 1, Len(titer.scan))
             /\ Len(titer.scan) <= Len(table.stream)
             /\ ~TwoLevel_valid(titer.it) => titer.scan = table.stream

(***************************************************************************)
(* C7: whatever calls came before, next() leaves the merging iterator on   *)
(* the smallest key of all children greater than the key it was on, and    *)
(* prev() on the largest key smaller than it; invalid when there is none.  *)
(***************************************************************************)
KeysAbove(key) == {k \in AllMergeKeys(merge) : BytesCmp(k, key) = 1}

KeysBelow(key) == {k \in AllMergeKeys(merge) : BytesCmp(k, key) = -1}

C7_MergeNextPrevWinner ==
    /\ mergeop.op = "next" =>
          /\ merge.st = "ok"
          /\ Merge_valid(merge) = (KeysAbove(mergeop.key) # {})
          /\ Merge_valid(merge) =>
                \A k \in KeysAbove(mergeop.key) : BytesCmp(Merge_key(merge), k) # 1
          /\ Merge_valid(merge) => Merge_key(merge) \in KeysAbove(mergeop.key)
    /\ mergeop.op = "prev" =>
          /\ merge.st = "ok"
          /\ Merge_valid(merge) = (KeysBelow(mergeop.key) # {})
          /\ Merge_valid(merge) =>
                \A k \in KeysBelow(mergeop.key) : BytesCmp(Merge_key(merge), k) # -1
          /\ Merge_valid(merge) => Merge_key(merge) \in KeysBelow(mergeop.key)

(***************************************************************************)
(* C1: a get of key k that took snapshot s returns the value of the entry  *)
(* for k with the largest sequence <= s, or NotFound when that entry is a  *)
(* Deletion or there is none.                                              *)
(***************************************************************************)
C1_GetReturnsNewest ==
    [][(dbget = NoDbGet /\ dbget' # NoDbGet) =>
          LET want == ExpectedGet(MemEntries(db.mem), dbget'.key, dbget'.snapshot)
          IN IF want.st = "Value"
             THEN dbget'.st = "Ok" /\ dbget'.value = want.v
             ELSE dbget'.st = "NotFound"]_vars

(***************************************************************************)
(* C2: once a write with sync = true has returned Ok, an open after a      *)
(* restart succeeds, and the opened database holds the write's entries.    *)
(***************************************************************************)
BatchEntries(b) ==
    {[ukey |-> b.entries[i].key, seq |-> b.sequence + i - 1, t |-> b.entries[i].t,
      value |-> b.entries[i].value] : i \in 1..Len(b.entries)}

C2_SyncedWriteSurvivesRestart ==
    dbhist.acked # {} =>
        /\ db.st \notin {"open_err", "open_panic"}
        /\ db.st = "open" =>
              \A b \in dbhist.acked : BatchEntries(b) \subseteq MemEntries(db.mem)

(***************************************************************************)
(* C3: a write of n entries that returned Ok was stamped last_sequence + 1 *)
(* and left last_sequence advanced by n, so the ranges of two such writes  *)
(* are disjoint and no two memtable entries share (user key, sequence).    *)
(***************************************************************************)
RangesDisjoint(a, b) ==
    a.sequence + a.count - 1 < b.sequence \/ b.sequence + b.count - 1 < a.sequence

C3_SequenceRangesReserved ==
    db.st = "open" =>
        /\ \A t \in Threads :
              wr[t].res = "Ok" => db.last_sequence >= wr[t].sequence + wr[t].count - 1
        /\ \A t1, t2 \in Threads :
              (t1 # t2 /\ wr[t1].res = "Ok" /\ wr[t2].res = "Ok")
                 => RangesDisjoint(wr[t1], wr[t2])
        /\ PairwiseDistinct(MemEntries(db.mem))

(***************************************************************************)
(* C9: a step that changes the live memtable is the insert of a write      *)
(* whose batch is in the log (within the fsynced part when sync = true),   *)
(* and the step in which a write returns Err leaves the memtable as it     *)
(* was.                                                                    *)
(***************************************************************************)
InLog(w, upto) ==
    \E i \in 1..upto :
        /\ disk.logs[db.log_file_number].file[i].k = "frag"
        /\ disk.logs[db.log_file_number].file[i].rec =
              [sequence |-> w.sequence, entries |-> w.entries]

C9_MemtableAfterWal ==
    [][/\ (db.st = "open" /\ db'.st = "open" /\ db'.mem # db.mem) =>
             \E t \in Threads :
                /\ wr[t].pc = "insert" /\ wr'[t].res = "Ok"
                /\ db.wal_owner = t
                /\ IF wr[t].sync
                   THEN InLog(wr[t], disk.logs[db.log_file_number].synced)
                   ELSE InLog(wr[t], Len(disk.logs[db.log_file_number].file))
       /\ \A t \in Threads :
             (wr[t].pc # "idle" /\ wr'[t].pc = "idle" /\ wr'[t].res = "Err")
                => db'.mem = db.mem]_vars

C9_Witness ==
    /\ db.st = "open"
    /\ MemEntries(db.mem) # {}
    /\ \E t \in Threads : wr[t].pc = "idle" /\ wr[t].res = "Err"

(***************************************************************************)
(* C10: writes in flight at the same time hold disjoint sequence ranges,   *)
(* and the records of the log are in the order of their sequences.         *)
(***************************************************************************)
C10_WritesSerialized ==
    db.st = "open" =>
        /\ \A t1, t2 \in Threads :
              (t1 # t2 /\ wr[t1].pc # "idle" /\ wr[t2].pc # "idle")
                 => RangesDisjoint(wr[t1], wr[t2])
        /\ LET file == disk.logs[db.log_file_number].file
           IN \A i, j \in 1..Len(file) :
                 i < j => file[i].rec.sequence + Len(file[i].rec.entries) - 1
                          < file[j].rec.sequence

(***************************************************************************)
(* C11: a traversal that has run to its end while an insert may have been  *)
(* in progress has visited, in ascending order, every key whose insert had *)
(* returned when the traversal started (from its start position on).       *)
(***************************************************************************)
C11_TraversalSeesEarlierEntries ==
    (slit.started /\ slit.current = NIL) =>
        /\ \A k \in slit.must : \E i \in 1..Len(slit.seen) : slit.seen[i] = k
        /\ \A i, j \in 1..Len(slit.seen) :
              i < j => KeyCompare(slit.seen[i], slit.seen[j]) < 0

C13_EditRoundTrip ==
    ve.res.op = "decode" => ve.res.st = "Ok" /\ ve.res.edit = ve.edit

(***************************************************************************)
(* C14: every Version that log_and_apply has put at the front of the       *)
(* VersionSet, where current() finds it, has its edit's record in a        *)
(* MANIFEST file, within the part of the file that is fsynced.             *)
(***************************************************************************)
C14_VersionAfterManifestSync ==
    \A i \in 1..Len(vs.versions) :
        vs.versions[i].by # 0 =>
            \E n \in DOMAIN vs.manifests :
                \E j \in 1..vs.manifests[n].synced :
                    vs.manifests[n].records[j] = vs.versions[i].by

\* two Versions have been installed, the first through a new MANIFEST
C14_Witness ==
    /\ Len(vs.versions) = 3
    /\ vs.pc = "idle"
    /\ vs.current = 2
    /\ vs.versions[1].files[1] # <<>>


(***************************************************************************)
(* C15: file numbers are never reused: across opens, writes, replays and   *)
(* reopens no number is given to two different files (a log, a table or a  *)
(* MANIFEST).  Every number an open hands out is recorded with the kind of *)
(* file made under it and the open that made it.                           *)
(***************************************************************************)
C15_FileNumbersNeverReused ==
    \A a, b \in dbhist.assigned : a.number = b.number => a = b


(***************************************************************************)
(* Open and recovery over directories another run left behind: a database  *)
(* with log files of one or two records, some of them damaged afterwards,  *)
(* and a MANIFEST that names table files of which some are gone.           *)
(***************************************************************************)
RecoverBatches ==
    <<[sequence |-> 1, entries |-> <<[t |-> Value, key |-> <<1>>, value |-> <<7>>]>>],
      [sequence |-> 2, entries |-> <<[t |-> Value, key |-> <<2>>, value |-> <<9>>]>>]>>

\* the log file LogWriter::add_record leaves after the first n batches
RECURSIVE WrittenLog(_)
WrittenLog(n) ==
    IF n = 0 THEN LogWriterNew
    ELSE add_record(WrittenLog(n - 1), RecoverBatches[n],
                    BatchSize(RecoverBatches[n].entries))

\* what the file system can make of the i-th chunk of a file: its payload
\* bits flipped, or the file truncated inside its header or inside its
\* payload
Damaged(file, i, how) ==
    CASE how = "bad" -> [file EXCEPT ![i].k = "bad"]
      [] how = "cut_header" ->
            Append(SubSeq(file, 1, i - 1), [k |-> "cut", n |-> HEADER_SIZE - 1])
      [] how = "cut_payload" ->
            Append(SubSeq(file, 1, i - 1), [k |-> "cut", n |-> HEADER_SIZE + file[i].n - 1])

RecoverLogs ==
    {<<>>} \cup {WrittenLog(n).file : n \in 1..MaxDirRecords}
    \cup {Damaged(WrittenLog(n).file, n, how) :
             n \in 1..MaxDirRecords, how \in {"bad", "cut_header", "cut_payload"}}
    \cup {Damaged(WrittenLog(MaxDirRecords).file, 1, "bad")}

\* the files a MANIFEST adds: none, one table, two tables of level 1, two
\* tables of level 0 with overlapping key ranges
RecoverNewFiles ==
    {<<>>,
     <<[level |-> 1, number |-> 5, smallest |-> 1, largest |-> 2]>>,
     <<[level |-> 1, number |-> 5, smallest |-> 1, largest |-> 2],
       [level |-> 1, number |-> 6, smallest |-> 3, largest |-> 4]>>,
     <<[level |-> 0, number |-> 5, smallest |-> 1, largest |-> 3],
       [level |-> 0, number |-> 6, smallest |-> 2, largest |-> 4]>>}

\* a database directory: MANIFEST-000001 behind CURRENT, one log file
RecoverDir(new_files, tables, log_number, file) ==
    [dir |-> TRUE, current |-> TRUE,
     manifest |-> [number |-> 1, log_number |-> 0, next_file_number |-> 7,
                   last_sequence |-> 0, new_files |-> new_files],
     logs |-> [n \in {log_number} |-> [file |-> file, synced |-> Len(file)]],
     tables |-> tables]

RecoverDirs ==
    {NoDisk, [NoDisk EXCEPT !.dir = TRUE]}
    \cup {RecoverDir(<<>>, {}, 3, file) : file \in RecoverLogs}
    \cup {RecoverDir(new_files, tables, log_number, <<>>) :
             new_files \in RecoverNewFiles, tables \in SUBSET {5, 6},
             log_number \in {5, 8}}

RecoverInit ==
    /\ LogIdle /\ MemIdle /\ BlockIdle /\ MergeIdle /\ RestIdle
    /\ db = DBImplInnerNew
    /\ disk \in RecoverDirs
    /\ wr = [t \in Threads |-> NoWrite]
    /\ dbget = NoDbGet
    /\ dbhist = NoHistory

RecoverNext ==
    \/ Open
    \/ Crash

SpecRecover == RecoverInit /\ [][RecoverNext]_vars

\* a step of LevelDB::open
OpenStep == dbhist'.opens = dbhist.opens + 1

\* the open went past the checks of create_if_missing and error_if_exists
OpenAdmitted == disk.current /\ ~dbhist'.last.options.error_if_exists

\* the table files the MANIFEST's Version refers to that are not in the
\* directory
MissingTables(d) ==
    {d.manifest.new_files[i].number : i \in 1..Len(d.manifest.new_files)} \ d.tables

(***************************************************************************)
(* C16: open fails with Corruption whenever a table file referenced by the *)
(* Version recovered from the MANIFEST is missing from the directory, and  *)
(* it does so before replaying any WAL.                                    *)
(***************************************************************************)
C16_MissingTableIsCorruption ==
    [][OpenStep /\ OpenAdmitted /\ MissingTables(disk) # {}
       => dbhist'.last.err = "Corruption" /\ dbhist'.last.replayed = 0]_vars

(***************************************************************************)
(* C17: open creates the directory and a fresh database only when          *)
(* create_if_missing is set.  Where there is no database and               *)
(* create_if_missing is false it returns InvalidArgument and creates       *)
(* nothing on disk; on an existing database with error_if_exists it        *)
(* returns InvalidArgument and leaves the database unchanged.              *)
(***************************************************************************)
C17_RefusedOpenChangesNothing ==
    [][OpenStep /\ (\/ ~disk.current /\ ~dbhist'.last.options.create_if_missing
                    \/ disk.current /\ dbhist'.last.options.error_if_exists)
       => dbhist'.last.err = "InvalidArgument" /\ disk' = disk]_vars

\* the logs recovery replays, and the chunks of a file that are damaged
ReplayedLogs(d) == {n \in DOMAIN d.logs : n >= d.manifest.log_number}

DamagedChunks(file) == {i \in 1..Len(file) : file[i].k \in {"bad", "cut"}}

\* the directory with the last record of every replayed log dropped where it
\* is the damaged one
WithoutDamagedTail(d) ==
    [d EXCEPT !.logs =
        [n \in DOMAIN d.logs |->
            IF n \in ReplayedLogs(d) /\ DamagedChunks(d.logs[n].file) = {Len(d.logs[n].file)}
            THEN [file |-> SubSeq(d.logs[n].file, 1, Len(d.logs[n].file) - 1),
                  synced |-> Len(d.logs[n].file) - 1]
            ELSE d.logs[n]]]

\* what an open of directory d with the options of this step returns
OpenOutcome(d) ==
    LET res == LevelDB_open(d, dbhist'.last.options, CHOOSE h \in DbHeights : TRUE)
    IN [st |-> res.st, err |-> res.err]

(***************************************************************************)
(* C18: while a WAL is replayed during recovery, a checksum mismatch or a  *)
(* truncation in the last record of the file is treated as clean end of    *)
(* file: the record is dropped and the open goes on as if the file ended   *)
(* before it.  A checksum mismatch in an earlier record surfaces as        *)
(* Corruption.                                                             *)
(***************************************************************************)
C18_DamagedTailIsEndOfFile ==
    [][OpenStep /\ OpenAdmitted /\ MissingTables(disk) = {}
       => /\ (\A n \in ReplayedLogs(disk) :
                 DamagedChunks(disk.logs[n].file) \subseteq {Len(disk.logs[n].file)})
             => [st |-> db'.st, err |-> dbhist'.last.err]
                   = OpenOutcome(WithoutDamagedTail(disk))
          /\ (\E n \in ReplayedLogs(disk) :
                 /\ Len(disk.logs[n].file) > 1
                 /\ disk.logs[n].file[1].k = "bad")
             => dbhist'.last.err = "Corruption"]_vars

(***************************************************************************)
(* SpecWorker: the compaction thread of run_compaction_worker, the callers *)
(* of maybe_schedule_compaction, and the setting of the shutdown flag.     *)
(* The channel is unbounded; both its ends live in the DBImplInner the     *)
(* worker holds an Arc of, so recv() never sees the channel disconnected.  *)
(***************************************************************************)
MaxCalls == 6

\* thread::spawn in run_compaction_worker: the thread starts at recv()
WorkerSpawn ==
    /\ wk.pc = "none"
    /\ wk' = [wk EXCEPT !.pc = "recv"]
    /\ UNCHANGED exceptWorker

\* maybe_schedule_compaction: nothing is sent once the flag is set
maybe_schedule_compaction(w) ==
    IF w.shutdown THEN w ELSE [w EXCEPT !.queue = @ + 1]

Schedule ==
    /\ wk.calls < MaxCalls
    /\ wk' = [maybe_schedule_compaction(wk) EXCEPT !.calls = @ + 1]
    /\ UNCHANGED exceptWorker

\* shutdown: the flag is stored
SetShutdown ==
    /\ ~wk.shutdown
    /\ wk' = [wk EXCEPT !.shutdown = TRUE]
    /\ UNCHANGED exceptWorker

\* the worker's recv(): it blocks while the channel is empty
WorkerRecv ==
    /\ wk.pc = "recv"
    /\ wk.queue > 0
    /\ wk' = [wk EXCEPT !.queue = @ - 1, !.pc = "check"]
    /\ UNCHANGED exceptWorker

\* the worker's load of the flag: break, or back to recv()
WorkerCheck ==
    /\ wk.pc = "check"
    /\ wk' = [wk EXCEPT !.pc = IF wk.shutdown THEN "exited" ELSE "recv"]
    /\ UNCHANGED exceptWorker

WorkerInit == CoreIdle /\ RestIdle

WorkerNext ==
    \/ WorkerSpawn
    \/ Schedule
    \/ SetShutdown
    \/ WorkerRecv
    \/ WorkerCheck

\* the operating system runs a thread that can take a step
SpecWorker ==
    /\ WorkerInit
    /\ [][WorkerNext]_vars
    /\ WF_vars(WorkerSpawn)
    /\ WF_vars(WorkerRecv)
    /\ WF_vars(WorkerCheck)

(***************************************************************************)
(* C19: after the shutdown flag has been set, the compaction worker thread *)
(* eventually observes it and exits; it does not stay blocked forever.     *)
(***************************************************************************)
C19_WorkerExitsAfterShutdown ==
    (wk.shutdown /\ wk.pc # "none") ~> (wk.pc = "exited")

(***************************************************************************)
(* SpecFlush: the engine with compaction_memtable called while it runs.    *)
(***************************************************************************)
\* DBImplInner::imm: set to None by new and by do_compaction_memtable, and
\* never to Some
DbImm == {"None"}

\* do_compaction_memtable: "panic" (the unwrap of imm, or build_table
\* panicking inside write_level0_table), "hang" (build_table never returning),
\* "Err" (shutdown) or "Ok"; `built` is what write_level0_table does, and
\* what it returns is dropped
do_compaction_memtable(immutable, shutdown, built) ==
    IF immutable = "None" THEN "panic"
    ELSE IF built \in {"panic", "hang"} THEN built
    ELSE IF shutdown THEN "Err"
    ELSE "Ok"

\* compaction_memtable: an Err is turned into a panic of the calling thread
compaction_memtable(immutable, shutdown, built) ==
    IF do_compaction_memtable(immutable, shutdown, built) = "Err" THEN "panic"
    ELSE do_compaction_memtable(immutable, shutdown, built)

\* a thread of its own calls compaction_memtable and the flush fails: the
\* thread unwinds, and no field of DBImplInner is written
CompactionMemtable ==
    /\ db.st = "open"
    /\ ~dbhist.bg
    /\ \E immutable \in DbImm, built \in {"Ok", "Err"} :
          compaction_memtable(immutable, wk.shutdown, built) = "panic"
    /\ dbhist' = [dbhist EXCEPT !.bg = TRUE]
    /\ UNCHANGED <<db, disk, wr, dbget>>
    /\ UNCHANGED <<logVars, memVars, blockVars, mergeVars, restVars>>

FlushNext ==
    \/ Open
    \/ \E t \in Threads : WriteStamp(t)
    \/ \E t \in Threads : WriteLog(t)
    \/ \E t \in Threads : WriteSync(t)
    \/ \E t \in Threads : WriteInsert(t)
    \/ CompactionMemtable
    \/ Crash

SpecFlush == Init /\ [][FlushNext]_vars

(***************************************************************************)
(* C20: a failure of the background memtable flush is recorded as a        *)
(* latched background error: the process keeps running and every write     *)
(* issued after the failure returns that error, until the database is      *)
(* closed and reopened.  dbhist.late holds the threads whose write was     *)
(* issued after a flush of this run had failed.                            *)
(***************************************************************************)
C20_WritesAfterFailedFlushFail ==
    \A t \in dbhist.late : wr[t].res # "Ok"

(***************************************************************************)
(* cmp.rs : BitWiseComparator.  SpecCmp: a start and a limit key are       *)
(* chosen, then find_shortest_separator or find_shortest_successor is      *)
(* called on them once.                                                    *)
(***************************************************************************)
MaxCmpLen == 2

CmpBytes == {0, 1, 254, 255}

CmpKeys == UNION {[1..n -> CmpBytes] : n \in 0..MaxCmpLen}

CmpInit ==
    /\ CoreIdle /\ StateIdle /\ BloomIdle /\ CacheIdle /\ CodecIdle /\ ImmIdle /\ TableCacheIdle /\ VersionIdle
    /\ \E start \in CmpKeys, limit \in CmpKeys :
          bwc = [NoCmp EXCEPT !.start = start, !.limit = limit]

CmpSeparator ==
    /\ bwc.op = "none"
    /\ bwc' = [bwc EXCEPT !.op = "separator",
                          !.out = find_shortest_separator(bwc.start, bwc.limit)]
    /\ UNCHANGED exceptCmp

CmpSuccessor ==
    /\ bwc.op = "none"
    /\ bwc' = [bwc EXCEPT !.op = "successor", !.out = find_shortest_successor(bwc.start)]
    /\ UNCHANGED exceptCmp

CmpNext ==
    \/ CmpSeparator
    \/ CmpSuccessor

SpecCmp == CmpInit /\ [][CmpNext]_vars

(***************************************************************************)
(* C21: for byte strings a < b, find_shortest_separator(a, b) leaves s     *)
(* with a <= s < b; for a byte string a, find_shortest_successor(a) leaves *)
(* s with s >= a.                                                          *)
(***************************************************************************)
C21_SeparatorAndSuccessor ==
    /\ bwc.op = "separator" /\ BytesCmp(bwc.start, bwc.limit) < 0
       => BytesCmp(bwc.start, bwc.out) <= 0 /\ BytesCmp(bwc.out, bwc.limit) < 0
    /\ bwc.op = "successor" => BytesCmp(bwc.out, bwc.start) >= 0

(***************************************************************************)
(* filter.rs : the Bloom filter.  A u32 is the pair <<high, low>> of its   *)
(* 16-bit halves; usize has 64 bits.                                       *)
(***************************************************************************)
RECURSIVE BitXor(_, _)
BitXor(a, b) ==
    IF a = 0 /\ b = 0 THEN 0
    ELSE (((a % 2) + (b % 2)) % 2) + (2 * BitXor(a \div 2, b \div 2))

RECURSIVE BitOr(_, _)
BitOr(a, b) ==
    IF a = 0 /\ b = 0 THEN 0
    ELSE (IF (a % 2) = 1 \/ (b % 2) = 1 THEN 1 ELSE 0) + (2 * BitOr(a \div 2, b \div 2))

Half == 65536

\* the product of two 16-bit numbers, as a u32 (it fits)
Mul16(a, b) ==
    LET p1 == (a \div 256) * b
        p0 == (a % 256) * b
        low == ((p1 % 256) * 256) + p0
    IN <<((p1 \div 256) + (low \div Half)) % Half, low % Half>>

\* u32::wrapping_mul
wrapping_mul(x, y) ==
    LET ll == Mul16(x[2], y[2])
    IN <<(ll[1] + Mul16(x[1], y[2])[2] + Mul16(x[2], y[1])[2]) % Half, ll[2]>>

\* u32 addition: [v (the sum modulo 2^32), overflow]
Add32(x, y) ==
    LET low == x[2] + y[2]
        high == x[1] + y[1] + (low \div Half)
    IN [v |-> <<high % Half, low % Half>>, overflow |-> high >= Half]

\* h ^ (h >> r) for r = 16 and r = 24
XorShr(h, r) ==
    <<h[1], BitXor(h[2], IF r = 16 THEN h[1] ELSE h[1] \div 256)>>

\* 0xc6a4a793 and 0xbc9f1d34
HashM == <<50852, 42899>>

BloomSeed == <<48287, 7476>>

\* hash, the rounds of four bytes read little-endian
RECURSIVE hash_words(_, _)
hash_words(h, buf) ==
    IF Len(buf) < 4 THEN [h |-> h, buf |-> buf]
    ELSE LET w == <<(buf[4] * 256) + buf[3], (buf[2] * 256) + buf[1]>>
         IN hash_words(XorShr(wrapping_mul(Add32(h, w).v, HashM), 16),
                       SubSeq(buf, 5, Len(buf)))

\* hash, the loop over the last Len(buf) < 4 bytes from the highest index
\* down: `h += byte << (i * 8)` is an addition that panics on overflow in a
\* build with overflow checks and wraps in a build without:
\* [h, overflow]
RECURSIVE hash_tail(_, _, _, _)
hash_tail(h, buf, i, overflow) ==
    IF i < 0 THEN [h |-> h, overflow |-> overflow]
    ELSE LET term == IF i = 2 THEN <<buf[3], 0>>
                     ELSE IF i = 1 THEN <<0, buf[2] * 256>>
                     ELSE <<0, buf[1]>>
             sum == Add32(h, term)
         IN hash_tail(IF i = 0 THEN XorShr(wrapping_mul(sum.v, HashM), 24) ELSE sum.v,
                      buf, i - 1, overflow \/ sum.overflow)

\* hash(data, seed): [h, overflow]
hash(data, seed) ==
    LET n == Len(data)
        h0 == <<BitXor(seed[1], wrapping_mul(HashM, <<0, n>>)[1]),
                BitXor(seed[2], wrapping_mul(HashM, <<0, n>>)[2])>>
        r == hash_words(h0, data)
    IN hash_tail(r.h, r.buf, Len(r.buf) - 1, FALSE)

bloom_hash(key) == hash(key, BloomSeed)

\* BloomFilterPolicy::new: hash_num
BloomFilterPolicyNew(bits_per_key) ==
    [bits_per_key |-> bits_per_key,
     hash_num |-> Min(30, IF ((bits_per_key * 69) \div 100) < 1 THEN 1
                          ELSE (bits_per_key * 69) \div 100)]

\* (h + k * delta) % bits for the usize h of a u32 hash and
\* delta = (h >> 7) | (h << 15); no sum of at most 30 deltas leaves 64 bits
BitPos(h, k, bits) ==
    LET hmod == (((h[1] % bits) * (Half % bits)) + h[2]) % bits
        shr7 == (h[1] * 512) + (h[2] \div 128)
        a == shr7 % 32768
        b == BitOr(shr7 \div 32768, h[2] % 1024)
        c == (h[1] * 64) + (h[2] \div 1024)
        delta == (a + (b * (32768 % bits)) + ((c % bits) * (33554432 % bits))) % bits
    IN (hmod + (k * delta)) % bits

\* the bits one key sets
ByteMask(h, hash_num, bits, byte) ==
    LET hit(b) == \E k \in 0..(hash_num - 1) : BitPos(h, k, bits) = (8 * byte) + b
        RECURSIVE sum(_)
        sum(b) == IF b = 8 THEN 0 ELSE (IF hit(b) THEN 2 ^ b ELSE 0) + sum(b + 1)
    IN sum(0)

\* the loop over 0..hash_num of create_filter for one key: every probed bit
\* is or-ed into its byte
SetBits(data, h, hash_num, bits) ==
    [i \in DOMAIN data |-> BitOr(data[i], ByteMask(h, hash_num, bits, i - 1))]

RECURSIVE AddKeys(_, _, _, _)
AddKeys(data, keys, hash_num, bits) ==
    IF keys = <<>> THEN data
    ELSE AddKeys(SetBits(data, bloom_hash(Head(keys)).h, hash_num, bits),
                 Tail(keys), hash_num, bits)

\* BloomFilterPolicy::create_filter into an empty dst: [st, filter].  With
\* overflow checks the call panics where an addition of hash overflows; in
\* any build `h % bits` panics when bits is 0.
create_filter(policy, keys, overflow_checks) ==
    LET bytes == (Min(Len(keys) * policy.bits_per_key, 64) + 7) \div 8
        bits == bytes * 8
        dst == [i \in 1..(bytes + 1) |-> IF i = bytes + 1 THEN policy.hash_num ELSE 0]
    IN IF keys # <<>> /\ bits = 0 THEN [st |-> "panic", filter |-> dst]
       ELSE IF overflow_checks /\ \E i \in 1..Len(keys) : bloom_hash(keys[i]).overflow
       THEN [st |-> "panic", filter |-> dst]
       ELSE [st |-> "built", filter |-> AddKeys(dst, keys, policy.hash_num, bits)]

\* BloomFilterPolicy::key_match: "true", "false" or "panic"
key_match(key, filter, overflow_checks) ==
    LET len == Len(filter)
        bits == (len - 1) * 8
        hash_num == filter[len]
    IN IF len < 2 THEN "false"
       ELSE IF hash_num > 30 THEN "true"
       ELSE IF overflow_checks /\ bloom_hash(key).overflow THEN "panic"
       ELSE IF \A k \in 0..(hash_num - 1) :
                  LET bitpos == BitPos(bloom_hash(key).h, k, bits)
                  IN ((filter[(bitpos \div 8) + 1] \div (2 ^ (bitpos % 8))) % 2) = 1
       THEN "true"
       ELSE "false"

(***************************************************************************)
(* SpecBloom: a policy, keys and a build (with or without overflow checks)  *)
(* are chosen, create_filter is called on the keys, then key_match is      *)
(* called on the filter.                                                   *)
(***************************************************************************)
MaxBloomKeys == 2

BloomBitsPerKey == {0, 1, 10, 50}

BloomKeys == {<<>>, <<1>>, <<104, 101, 108, 108, 111>>, <<1, 0, 0, 254, 0, 0, 254>>}

BloomInit ==
    /\ CoreIdle /\ StateIdle /\ CmpIdle /\ CacheIdle /\ CodecIdle /\ ImmIdle /\ TableCacheIdle /\ VersionIdle
    /\ \E bits_per_key \in BloomBitsPerKey, overflow_checks \in BOOLEAN,
          keys \in UNION {[1..n -> BloomKeys] : n \in 0..MaxBloomKeys} :
          bloom = [NoBloom EXCEPT !.bits_per_key = bits_per_key, !.keys = keys,
                                  !.overflow_checks = overflow_checks]

BloomCreate ==
    /\ bloom.st = "none"
    /\ \E res \in {create_filter(BloomFilterPolicyNew(bloom.bits_per_key), bloom.keys,
                                 bloom.overflow_checks)} :
          bloom' = [bloom EXCEPT !.st = res.st, !.filter = res.filter]
    /\ UNCHANGED exceptBloom

BloomMatch ==
    /\ bloom.st = "built"
    /\ bloom.probe = NoProbe
    /\ \E key \in BloomKeys :
          bloom' = [bloom EXCEPT !.probe = [key |-> key,
                                            res |-> key_match(key, bloom.filter,
                                                              bloom.overflow_checks)]]
    /\ UNCHANGED exceptBloom

BloomNext ==
    \/ BloomCreate
    \/ BloomMatch

SpecBloom == BloomInit /\ [][BloomNext]_vars

(***************************************************************************)
(* C22: for any keys and any bits per key, every key passed to             *)
(* create_filter matches the filter it built (key_match is never false for *)
(* an added key), and a filter built from no keys matches no key.          *)
(***************************************************************************)
C22_NoFalseNegative ==
    /\ bloom.st \in {"none", "built"}
    /\ bloom.probe # NoProbe
       => /\ (\E i \in 1..Len(bloom.keys) : bloom.keys[i] = bloom.probe.key)
             => bloom.probe.res = "true"
          /\ bloom.keys = <<>> => bloom.probe.res = "false"

(***************************************************************************)
(* utils/cache.rs : the sharded LRU cache.  A shard is [lru, usage,        *)
(* capacity]; lru holds the entries [key, value, charge], the least        *)
(* recently used first.  An Option<Arc<V>> is [some, value].               *)
(***************************************************************************)
NUM_SHARD_BITS == 4

NUM_SHARDS == 2 ^ NUM_SHARD_BITS

NoValue == [some |-> FALSE, value |-> 0]

SomeValue(v) == [some |-> TRUE, value |-> v]

\* LruCacheInner::new
LruCacheInnerNew(capacity) == [lru |-> <<>>, usage |-> 0, capacity |-> capacity]

\* ShardLruCache::new
ShardLruCacheNew(capacity) ==
    LET per_shard == (capacity + NUM_SHARDS - 1) \div NUM_SHARDS
    IN [i \in 1..NUM_SHARDS |-> LruCacheInnerNew(per_shard)]

\* the entries of an LruCache but the one of a key
LruWithout(lru, key) ==
    LET other(e) == e.key # key
    IN SelectSeq(lru, other)

\* the entries of an LruCache for a key: none or one
LruEntries(lru, key) ==
    LET same(e) == e.key = key
    IN SelectSeq(lru, same)

\* the loop of LruCacheInner::insert: pop_lru while the usage is above the capacity
RECURSIVE evict(_)
evict(s) ==
    IF s.usage > s.capacity /\ s.lru # <<>>
    THEN evict([s EXCEPT !.usage = @ - Head(s.lru).charge, !.lru = Tail(@)])
    ELSE s

\* LruCacheInner::insert: [s, res]; LruCache::put replaces the entry of the
\* key and makes it the most recently used
LruCacheInner_insert(s, key, value, charge) ==
    IF s.capacity = 0 THEN [s |-> s, res |-> NoValue]
    ELSE LET e == evict([s EXCEPT !.usage = @ + charge])
         IN [s |-> [e EXCEPT !.lru = Append(LruWithout(@, key),
                                            [key |-> key, value |-> value,
                                             charge |-> charge])],
             res |-> SomeValue(value)]

\* LruCacheInner::lookup: [s, res]; LruCache::get makes the entry the most
\* recently used
LruCacheInner_lookup(s, key) ==
    LET found == LruEntries(s.lru, key)
    IN IF found # <<>>
       THEN [s |-> [s EXCEPT !.lru = LruWithout(@, key) \o found],
             res |-> SomeValue(found[1].value)]
       ELSE [s |-> s, res |-> NoValue]

\* LruCacheInner::erase
LruCacheInner_erase(s, key) ==
    LET found == LruEntries(s.lru, key)
    IN IF found # <<>>
       THEN [s EXCEPT !.lru = LruWithout(@, key), !.usage = @ - found[1].charge]
       ELSE s

\* ShardLruCache::get_shard: the index of the shard of a key
get_shard(c, key) == c.shard_of[key] + 1

(***************************************************************************)
(* SpecCache: a cache of a chosen capacity; insert, lookup and erase are   *)
(* called on it with chosen keys, values and charges.  The shard of a key  *)
(* is the top NUM_SHARD_BITS bits of its hash: a function of the key.      *)
(***************************************************************************)
MaxCacheCalls == 4

CacheKeys == {1, 2, 3}

CacheValues == {7, 8}

CacheCharges == {0, 1}

CacheCapacities == {0, 16, 32}

CacheShardings ==
    {[k \in CacheKeys |-> 0], [k \in CacheKeys |-> IF k = 1 THEN 0 ELSE NUM_SHARDS - 1]}

CacheInit ==
    /\ CoreIdle /\ StateIdle /\ CmpIdle /\ BloomIdle /\ CodecIdle /\ ImmIdle /\ TableCacheIdle /\ VersionIdle
    /\ \E capacity \in CacheCapacities, shard_of \in CacheShardings :
          cache = [NoCache EXCEPT !.capacity = capacity, !.shard_of = shard_of,
                                  !.shards = ShardLruCacheNew(capacity)]

CacheInsert ==
    /\ cache.shards # <<>>
    /\ cache.calls < MaxCacheCalls
    /\ \E key \in CacheKeys, value \in CacheValues, charge \in CacheCharges :
          \E r \in {LruCacheInner_insert(cache.shards[get_shard(cache, key)],
                                         key, value, charge)} :
             cache' = [cache EXCEPT !.shards[get_shard(cache, key)] = r.s,
                                    !.op = [kind |-> "insert", key |-> key, value |-> value,
                                            charge |-> charge, res |-> r.res],
                                    !.calls = @ + 1]
    /\ UNCHANGED exceptCache

CacheLookup ==
    /\ cache.shards # <<>>
    /\ cache.calls < MaxCacheCalls
    /\ \E key \in CacheKeys :
          \E r \in {LruCacheInner_lookup(cache.shards[get_shard(cache, key)], key)} :
             cache' = [cache EXCEPT !.shards[get_shard(cache, key)] = r.s,
                                    !.op = [kind |-> "lookup", key |-> key, value |-> 0,
                                            charge |-> 0, res |-> r.res],
                                    !.calls = @ + 1]
    /\ UNCHANGED exceptCache

CacheErase ==
    /\ cache.shards # <<>>
    /\ cache.calls < MaxCacheCalls
    /\ \E key \in CacheKeys :
          cache' = [cache EXCEPT !.shards[get_shard(cache, key)] =
                                      LruCacheInner_erase(@, key),
                                 !.op = [kind |-> "erase", key |-> key, value |-> 0,
                                         charge |-> 0, res |-> NoValue],
                                 !.calls = @ + 1]
    /\ UNCHANGED exceptCache

CacheNext ==
    \/ CacheInsert
    \/ CacheLookup
    \/ CacheErase

SpecCache == CacheInit /\ [][CacheNext]_vars

\* what lookup(key) would return on a cache
Cached(c, key) ==
    LET found == LruEntries(c.shards[get_shard(c, key)].lru, key)
    IN IF found # <<>> THEN SomeValue(found[1].value) ELSE NoValue

\* the charges of the entries of an LruCache
RECURSIVE TotalCharge(_)
TotalCharge(lru) == IF lru = <<>> THEN 0 ELSE Head(lru).charge + TotalCharge(Tail(lru))

\* an insert fits when the entries the shard holds for the other keys and
\* the new entry are together within the capacity of the shard
Fits(c, key, charge) ==
    LET s == c.shards[get_shard(c, key)]
    IN TotalCharge(LruWithout(s.lru, key)) + charge <= s.capacity

(***************************************************************************)
(* C23: after insert(k, v, charge) with charge within the capacity of the  *)
(* shard, lookup(k) returns v; a lookup returns the value the cache holds  *)
(* for the key; and an entry stays, with its value, over every call but an *)
(* erase of its key, an insert of its key and an insert that does not fit  *)
(* within the capacity of the shard.                                       *)
(***************************************************************************)
C23_CachedUntilRemoved ==
    [][/\ cache'.op.kind = "insert"
          /\ cache'.op.charge <= cache.shards[get_shard(cache, cache'.op.key)].capacity
          => Cached(cache', cache'.op.key) = SomeValue(cache'.op.value)
       /\ cache'.op.kind = "lookup"
          => cache'.op.res = Cached(cache, cache'.op.key)
       /\ \A k \in CacheKeys :
             /\ Cached(cache, k).some
             /\ \/ cache'.op.key # k
                \/ cache'.op.kind = "lookup"
             /\ cache'.op.kind = "insert" => Fits(cache, cache'.op.key, cache'.op.charge)
             => Cached(cache', k) = Cached(cache, k)]_vars

(***************************************************************************)
(* codec.rs : the varint and length-prefixed-slice decoders.  A decoded    *)
(* integer is the set of the positions of its 1 bits, so that a u64 is     *)
(* held exactly; a result is [st, bits, v, offset] with st the Ok or the   *)
(* kind of the Error, v the slice and offset the bytes consumed.           *)
(***************************************************************************)
MASK == 128

\* the 1 bits of the low seven bits of a byte
ByteBits(byte) == {i \in 0..6 : ((byte \div (2 ^ i)) % 2) = 1}

\* `result |= byte << shift` in an integer of `width` bits: the bits shifted
\* past the width are lost
ShiftInto(bits, byte, shift, width) ==
    bits \union {shift + i : i \in {j \in ByteBits(byte) : shift + j < width}}

\* the loop of the four varint decoders from offset, with the error kind of
\* a missing byte
RECURSIVE var_loop(_, _, _, _, _, _, _)
var_loop(data, offset, shift, bits, max_shift, width, eof) ==
    IF shift > max_shift
    THEN [st |-> "Corruption", bits |-> {}, v |-> <<>>, offset |-> 0]
    ELSE IF offset >= Len(data)
    THEN [st |-> eof, bits |-> {}, v |-> <<>>, offset |-> 0]
    ELSE IF data[offset + 1] < MASK
    THEN [st |-> "Ok", bits |-> ShiftInto(bits, data[offset + 1], shift, width),
          v |-> <<>>, offset |-> offset + 1]
    ELSE var_loop(data, offset + 1, shift + 7,
                  ShiftInto(bits, data[offset + 1], shift, width), max_shift, width, eof)

\* VarintReader::read_var_u32 on a &[u8]: read_u8 fails with an io::Error,
\* which `?` turns into Error::FormatError
read_var_u32(data) == var_loop(data, 0, 0, {}, 28, 32, "FormatError")

\* VarintReader::read_var_u64
read_var_u64(data) == var_loop(data, 0, 0, {}, 63, 64, "FormatError")

\* Decoder::decode_var_u32
decode_var_u32(data) == var_loop(data, 0, 0, {}, 28, 32, "Corruption")

\* Decoder::decode_var_u64
decode_var_u64(data) == var_loop(data, 0, 0, {}, 63, 64, "Corruption")

\* a decoded integer as a number, for the comparison with a length: every
\* integer of 2^16 and above is the same
AsLength(bits) ==
    LET RECURSIVE sum(_)
        sum(i) == IF i = 16 THEN 0 ELSE (IF i \in bits THEN 2 ^ i ELSE 0) + sum(i + 1)
    IN IF \E i \in bits : i >= 16 THEN 65536 ELSE sum(0)

\* Decoder::decode_length_prefix_slice
decode_length_prefix_slice(data) ==
    LET l == decode_var_u32(data)
        key_size == AsLength(l.bits)
    IN IF l.st # "Ok" THEN l
       ELSE IF l.offset + key_size > Len(data)
       THEN [st |-> "Corruption", bits |-> {}, v |-> <<>>, offset |-> 0]
       ELSE [st |-> "Ok", bits |-> {}, v |-> SubSeq(data, l.offset + 1, l.offset + key_size),
             offset |-> l.offset + key_size]

\* VarLengthSliceReader::read_length_prefixed_slice on a &[u8], with the
\* BufferReader::read_bytes of utils/buffer.rs
VarLengthSliceReader_read(data) ==
    LET l == read_var_u32(data)
        len == AsLength(l.bits)
    IN IF l.st # "Ok" THEN l
       ELSE IF Len(data) - l.offset < len
       THEN [st |-> "FormatError", bits |-> {}, v |-> <<>>, offset |-> 0]
       ELSE [st |-> "Ok", bits |-> {}, v |-> SubSeq(data, l.offset + 1, l.offset + len),
             offset |-> l.offset + len]

(***************************************************************************)
(* SpecCodec: a byte string is chosen and one of the decoders is called on *)
(* it.  The strings are runs of continuation bytes of every length up to   *)
(* one past the longest varint, followed by nothing, by a last byte or by  *)
(* a length and a payload.                                                 *)
(***************************************************************************)
MaxRun == 11

CodecTails == {<<>>, <<0>>, <<1>>, <<15>>, <<16>>, <<127>>, <<1, 9>>, <<2, 9>>}

RECURSIVE Run(_, _)
Run(byte, n) == IF n = 0 THEN <<>> ELSE <<byte>> \o Run(byte, n - 1)

CodecInputs == {Run(byte, n) \o tail : byte \in {128, 255}, n \in 0..MaxRun, tail \in CodecTails}

CodecInit ==
    /\ CoreIdle /\ StateIdle /\ CmpIdle /\ BloomIdle /\ CacheIdle /\ ImmIdle /\ TableCacheIdle /\ VersionIdle
    /\ \E data \in CodecInputs : dec = [NoCodec EXCEPT !.data = data]

ReadVarU32 ==
    /\ dec.op = "none"
    /\ dec' = [dec EXCEPT !.op = "read_var_u32", !.res = read_var_u32(dec.data)]
    /\ UNCHANGED exceptCodec

ReadVarU64 ==
    /\ dec.op = "none"
    /\ dec' = [dec EXCEPT !.op = "read_var_u64", !.res = read_var_u64(dec.data)]
    /\ UNCHANGED exceptCodec

DecodeVarU32 ==
    /\ dec.op = "none"
    /\ dec' = [dec EXCEPT !.op = "decode_var_u32", !.res = decode_var_u32(dec.data)]
    /\ UNCHANGED exceptCodec

DecodeVarU64 ==
    /\ dec.op = "none"
    /\ dec' = [dec EXCEPT !.op = "decode_var_u64", !.res = decode_var_u64(dec.data)]
    /\ UNCHANGED exceptCodec

DecodeLengthPrefixSlice ==
    /\ dec.op = "none"
    /\ dec' = [dec EXCEPT !.op = "decode_length_prefix_slice", !.res = decode_length_prefix_slice(dec.data)]
    /\ UNCHANGED exceptCodec

ReadLengthPrefixedSlice ==
    /\ dec.op = "none"
    /\ dec' = [dec EXCEPT !.op = "read_length_prefixed_slice", !.res = VarLengthSliceReader_read(dec.data)]
    /\ UNCHANGED exceptCodec

CodecNext ==
    \/ ReadVarU32
    \/ ReadVarU64
    \/ DecodeVarU32
    \/ DecodeVarU64
    \/ DecodeLengthPrefixSlice
    \/ ReadLengthPrefixedSlice

SpecCodec == CodecInit /\ [][CodecNext]_vars

\* the continuation bytes a string starts with
RECURSIVE Continued(_)
Continued(data) ==
    IF data = <<>> \/ Head(data) < MASK THEN 0 ELSE 1 + Continued(Tail(data))

\* the integer a varint stands for, of any size: the seven bits of byte i at
\* position 7 * (i - 1)
VarintBits(data) ==
    UNION {{(7 * (i - 1)) + j : j \in ByteBits(data[i])} :
           i \in 1..Min(Continued(data) + 1, Len(data))}

\* the varint at the start of data is cut short
VarintTruncated(data) == Continued(data) >= Len(data)

\* the varint at the start of data is too long for an integer of the width
VarintOverlong(data, width) ==
    /\ ~VarintTruncated(data)
    /\ \/ Continued(data) + 1 > (width + 6) \div 7
       \/ width = 32 /\ \E b \in VarintBits(data) : b >= width

\* what a decoder of varints of a width may return for data
VarintExpected(data, width, res) ==
    /\ res.st \in {"Ok", "Corruption"}
    /\ VarintTruncated(data) \/ VarintOverlong(data, width) => res.st = "Corruption"
    /\ res.st = "Ok" => /\ res.bits = VarintBits(data)
                        /\ res.offset = Continued(data) + 1

\* what a decoder of length-prefixed slices may return for data
SliceExpected(data, res) ==
    LET truncated == \/ VarintTruncated(data)
                     \/ /\ ~VarintOverlong(data, 32)
                        /\ Continued(data) + 1 + AsLength(VarintBits(data)) > Len(data)
    IN /\ res.st \in {"Ok", "Corruption"}
       /\ truncated \/ VarintOverlong(data, 32) => res.st = "Corruption"
       /\ res.st = "Ok" => /\ res.offset = Continued(data) + 1 + AsLength(VarintBits(data))
                           /\ res.v = SubSeq(data, Continued(data) + 2, res.offset)

(***************************************************************************)
(* C24: every varint decoder and every length-prefixed-slice decoder       *)
(* returns Corruption for a truncated input and for an overlong encoding   *)
(* (a u32 varint of more than 5 bytes or of more than 32 value bits, a u64 *)
(* varint of more than 10 bytes); what it returns otherwise is the value   *)
(* encoded, and it returns no error of another kind.                       *)
(***************************************************************************)
C24_DecodersFailWithCorruption ==
    /\ dec.op \in {"read_var_u32", "decode_var_u32"} => VarintExpected(dec.data, 32, dec.res)
    /\ dec.op \in {"read_var_u64", "decode_var_u64"} => VarintExpected(dec.data, 64, dec.res)
    /\ dec.op \in {"decode_length_prefix_slice", "read_length_prefixed_slice"}
       => SliceExpected(dec.data, dec.res)

\* a step of SpecManifest in which log_and_apply ran the VersionBuilder on
\* the current Version and the edit of vs'.edit
BuilderStep ==
    /\ vs.pc = "idle"
    /\ vs'.calls = vs.calls + 1
    /\ vs'.version.by = vs'.calls

\* the files of a sequence of files
FileSet(fs) == {fs[i] : i \in 1..Len(fs)}

\* the files an edit leaves at a level of a Version: those it has and those
\* the edit adds, but the ones the edit deletes
ExpectedFiles(base, edit, level) ==
    {f \in FileSet(base.files[level])
           \cup {[number |-> a.number, smallest |-> a.smallest, largest |-> a.largest] :
                 a \in {n \in FileSet(edit.new_files) : n.level = level}} :
        ~\E d \in FileSet(edit.deleted_files) : d.level = level /\ d.number = f.number}

\* sorted by smallest key, no file twice
SortedNoDuplicates(fs) ==
    \A i, j \in 1..Len(fs) :
        i < j => fs[i].smallest <= fs[j].smallest /\ fs[i].number # fs[j].number

(***************************************************************************)
(* C25: applying a VersionEdit to the current Version with the             *)
(* VersionBuilder terminates and gives, at each level, exactly the files   *)
(* (current + added) - deleted, sorted by smallest key, none of them       *)
(* twice.                                                                  *)
(***************************************************************************)
C25_BuilderGivesEditedFiles ==
    [][BuilderStep =>
          /\ vs'.pc \notin {"hang", "panic"}
          /\ \A l \in Levels :
                /\ FileSet(vs'.version.files[l]) = ExpectedFiles(vs.versions[1], vs'.edit, l)
                /\ SortedNoDuplicates(vs'.version.files[l])]_vars

\* the key ranges of the files of a level, in their order, do not overlap
SortedDisjoint(fs) ==
    \A i, j \in 1..Len(fs) : i < j => fs[i].largest < fs[j].smallest

\* an edit adds a level-0 file whose key range overlaps that of a level-0
\* file of a Version
AddsOverlappingLevel0(base, edit) ==
    \E a \in FileSet(edit.new_files), f \in FileSet(base.files[0]) :
        /\ a.level = 0
        /\ a.number # f.number
        /\ a.smallest <= f.largest /\ f.smallest <= a.largest

(***************************************************************************)
(* C28: in every Version the VersionBuilder produces the files of each     *)
(* level >= 1 are sorted by smallest key with pairwise disjoint key        *)
(* ranges; the files of level 0 may overlap: a builder step whose edit     *)
(* adds a level-0 file overlapping one of the current Version succeeds.    *)
(***************************************************************************)
C28_LevelsDisjointButLevel0 ==
    [][BuilderStep =>
          /\ \A l \in Levels \ {0} : SortedDisjoint(vs'.version.files[l])
          /\ AddsOverlappingLevel0(vs.versions[1], vs'.edit)
                => vs'.pc \notin {"hang", "panic"}]_vars

\* Options::write_buffer_size as the database is opened with: a few bytes,
\* so that the writes of the model pass it
DbWriteBufferSize == 8

\* what MemTable::add adds to memory_usage for the entries of a batch
RECURSIVE BatchUsage(_)
BatchUsage(entries) ==
    IF entries = <<>> THEN 0
    ELSE LET key_size == Len(Head(entries).key) + 8
             value_size == Len(Head(entries).value)
         IN key_size + value_size + required_space(key_size) + required_space(value_size)
            + BatchUsage(Tail(entries))

MaxBatchUsage ==
    CHOOSE u \in {BatchUsage(b) : b \in DbBatches} :
        \A b \in DbBatches : BatchUsage(b) <= u

(***************************************************************************)
(* C27: a write that finds the live memtable over write_buffer_size        *)
(* freezes it and goes on with a new WAL file and a new memtable, and the  *)
(* step that makes room returns, so the write completes; hence the live    *)
(* memtable never exceeds write_buffer_size by more than one batch.        *)
(***************************************************************************)
C27_WriteMakesRoom ==
    [][db.st = "open" /\ db'.st = "open" /\ db'.mem # db.mem =>
          /\ db.mem.memory_usage > DbWriteBufferSize
                => /\ db'.log_file_number # db.log_file_number
                   /\ db'.mem.memory_usage <= MaxBatchUsage
          /\ db'.mem.memory_usage <= DbWriteBufferSize + MaxBatchUsage]_vars

(***************************************************************************)
(* SpecImm: the engine with an immutable memtable.  The database is opened *)
(* and written to; a memtable above write_buffer_size is frozen into imm   *)
(* and a new log file and memtable are opened; compaction_memtable is      *)
(* called on a thread of its own, with the file of the table created or    *)
(* refused by the environment.                                             *)
(***************************************************************************)
MaxFlushes == 2

\* the write path's freeze: the live memtable becomes imm, a new log file
\* and a new memtable take its place
Freeze ==
    /\ db.st = "open"
    /\ db.wal_owner = 0
    /\ imm.slot = <<>>
    /\ db.mem.memory_usage > DbWriteBufferSize
    /\ imm' = [imm EXCEPT !.slot = <<db.mem>>]
    /\ db' = [db EXCEPT !.mem = MemTableNew,
                        !.log_file_number = db.next_file_number,
                        !.next_file_number = @ + 1,
                        !.current_block_offset = LogWriterNew.current_block_offset]
    /\ disk' = [disk EXCEPT !.logs =
                   [n \in DOMAIN disk.logs \cup {db.next_file_number} |->
                       IF n = db.next_file_number
                       THEN [file |-> LogWriterNew.file, synced |-> 0]
                       ELSE disk.logs[n]]]
    /\ UNCHANGED <<wr, dbget, dbhist>>
    /\ UNCHANGED exceptDbImm

\* write_level0_table on a memtable: what build_table does, env_ok whether
\* the environment creates the file of the table
write_level0_table(m, env_ok) ==
    IF m.table.next # NIL /\ ~env_ok THEN "Err"
    ELSE IF build_table(m) = "ok" THEN "Ok"
    ELSE build_table(m)

\* compaction_memtable called while the engine runs.  write_level0_table
\* takes a file number; the file of a table whose build hangs stays, the one
\* of a build that panics is deleted as the thread unwinds.  No Version is
\* installed: the edit is dropped with the call.
FlushImm ==
    /\ db.st = "open"
    /\ imm.flushes < MaxFlushes
    /\ \E env_ok \in BOOLEAN :
          LET immutable == IF imm.slot = <<>> THEN "None" ELSE "Some"
              built == IF imm.slot = <<>> THEN "Ok"
                       ELSE write_level0_table(imm.slot[1], env_ok)
              res == compaction_memtable(immutable, wk.shutdown, built)
          IN /\ imm' = [slot |-> IF res = "Ok" THEN <<>> ELSE imm.slot,
                        res |-> res, flushes |-> imm.flushes + 1]
             /\ db' = IF imm.slot = <<>> THEN db
                      ELSE [db EXCEPT !.next_file_number = @ + 1]
             /\ disk' = IF imm.slot # <<>> /\ built = "hang"
                        THEN [disk EXCEPT !.tables = @ \cup {db.next_file_number}]
                        ELSE disk
    /\ UNCHANGED <<wr, dbget, dbhist>>
    /\ UNCHANGED exceptDbImm

ImmNext ==
    \/ Open
    \/ \E t \in Threads : WriteStamp(t)
    \/ \E t \in Threads : WriteLog(t)
    \/ \E t \in Threads : WriteSync(t)
    \/ \E t \in Threads : WriteInsert(t)
    \/ Freeze
    \/ FlushImm
    \/ SetShutdown

SpecImm == Init /\ [][ImmNext]_vars

(***************************************************************************)
(* C26: a flush drops the immutable memtable only after build_table has    *)
(* written its table and log_and_apply has installed a Version that holds  *)
(* the table, with log_number set to the live WAL; when the table is not   *)
(* written or the edit not installed, the immutable memtable is kept.      *)
(***************************************************************************)
C26_ImmDroppedAfterInstall ==
    [][imm.slot # <<>> /\ imm'.slot = <<>> =>
          /\ \E n \in disk'.tables \ disk.tables :
                \E i \in 1..Len(disk'.manifest.new_files) :
                   disk'.manifest.new_files[i].number = n
          /\ disk'.manifest.log_number = db'.log_file_number]_vars
(***************************************************************************)
(* The log writer's block arithmetic (log.rs:48-106).                      *)
(***************************************************************************)
\* The byte of the file at which chunk i starts
ChunkStart(file, i) == FileSize(SubSeq(file, 1, i - 1))

\* Bytes first..last lie in one block
InOneBlock(first, last) == (first \div BLOCK_SIZE) = (last \div BLOCK_SIZE)

\* No header and no payload of a fragment crosses a block boundary
FragmentsInBlocks(file) ==
    \A i \in 1..Len(file) :
        file[i].k = "frag" =>
            LET start == ChunkStart(file, i)
            IN /\ InOneBlock(start, start + HEADER_SIZE - 1)
               /\ file[i].n > 0 =>
                     InOneBlock(start + HEADER_SIZE, start + HEADER_SIZE + file[i].n - 1)

\* C29: after any sequence of add_record calls the writer's
\* current_block_offset is the number of bytes written modulo the block size
\* (a block filled to its last byte counts as offset 0), and no fragment
\* header or fragment payload crosses a block boundary.
C29_OffsetTracksBytesWritten ==
    /\ (logw.current_block_offset % BLOCK_SIZE) = (FileSize(logw.file) % BLOCK_SIZE)
    /\ FragmentsInBlocks(logw.file)

(***************************************************************************)
(* SpecContent: a WriteBatch is given its bytes by set_content, as the     *)
(* recovery of a log does with each record (db_impl.rs:283-289), and is    *)
(* then inserted into a fresh memtable.  The contents are the bytes of     *)
(* batches built by put and delete, intact or damaged.                     *)
(***************************************************************************)
MaxContentOps == 2

ContentValues == {<<>>, <<9>>}

ContentOps ==
    {[t |-> Value, key |-> k, value |-> v] : k \in BatchKeys, v \in ContentValues}
    \cup {[t |-> Deletetion, key |-> k, value |-> <<>>] : k \in BatchKeys}

\* the bytes of the batch built by the calls `ops`
RECURSIVE RepOf(_)
RepOf(ops) ==
    IF ops = <<>> THEN WriteBatchNew
    ELSE LET op == ops[Len(ops)]
             b == RepOf(SubSeq(ops, 1, Len(ops) - 1))
         IN IF op.t = Value THEN WriteBatch_put(b, op.key, op.value)
            ELSE WriteBatch_delete(b, op.key)

\* a tag byte that is no ValueType
UnknownTag == 7

\* the bytes b and what damage makes of them: a count one too high or one
\* too low, the last byte cut off, an unknown tag or a Deletetion tag with
\* no key after the last entry, and a header cut to 7 bytes
DamagedContents(b) ==
    {b,
     WriteBatch_set_count(b, WriteBatch_count(b) + 1),
     SubSeq(b, 1, Len(b) - 1),
     b \o <<UnknownTag>>,
     b \o <<Deletetion>>,
     SubSeq(b, 1, 7)}
    \cup (IF WriteBatch_count(b) > 0
          THEN {WriteBatch_set_count(b, WriteBatch_count(b) - 1)} ELSE {})

Contents ==
    UNION {DamagedContents(RepOf(ops)) : ops \in UNION {[1..n -> ContentOps] : n \in 0..MaxContentOps}}

SetContent ==
    /\ wb.res.op = "none"
    /\ \E content \in Contents :
          wb' = [wb EXCEPT !.rep = content, !.ops = <<>>, !.base = 0]
    /\ UNCHANGED exceptBatch

ContentInsertInto ==
    /\ wb.res.op = "none"
    /\ \E new_heights \in {[i \in 1..MaxContentOps + 1 |-> 1]} :
       \E ins \in {WriteBatch_insert_into(wb.rep, MemTableNew, new_heights)} :
          wb' = [wb EXCEPT !.res = [op |-> "insert_into", st |-> ins.st, calls |-> <<>>,
                                    mem |-> ins.mem]]
    /\ UNCHANGED exceptBatch

ContentNext == SetContent \/ ContentInsertInto

SpecContent == BatchInit /\ [][ContentNext]_vars

\* C30: when insert_into returns an error, for a malformed entry or for a
\* count of entries that is not the count of the header, the memtable holds
\* none of the batch's entries.
C30_FailedBatchAddsNothing ==
    wb.res.op = "insert_into" /\ wb.res.st \notin {"Ok", "panic"} =>
        MemEntries(wb.res.mem) = {}

(***************************************************************************)
(* C31: whenever log_and_apply returns Ok, CURRENT names the MANIFEST file *)
(* that holds the record of the edit it applied, whatever calls on the     *)
(* environment failed in this call or in an earlier one.                   *)
(***************************************************************************)
C31_CurrentNamesManifestOfEdit ==
    vs.pc = "idle" /\ vs.res = "Ok" =>
        \E j \in 1..Len(vs.manifests[vs.current].records) :
            vs.manifests[vs.current].records[j] = vs.calls

(***************************************************************************)
(* C32: when log_and_apply returns an error the VersionSet is as it was    *)
(* when the call was entered: the Versions with the current one at the     *)
(* front, log_number, prev_log_number and the compact pointer of every     *)
(* level.                                                                  *)
(***************************************************************************)
C32_FailedApplyChangesNothing ==
    vs.pc = "idle" /\ vs.res = "Err" => EntryOf(vs) = vs.entry

(***************************************************************************)
(* skiplist.rs : find_less_than and SkipListIter::prev (85-107, 248-251).  *)
(* SpecPrev: nodes are inserted with every choice of height, each insert   *)
(* run to its end; a SkipListIter is placed on an entry by seek and moved  *)
(* by prev.                                                                *)
(***************************************************************************)
\* SkipList::find_less_than: from the head at the top level, right while the
\* next key is less; a next key that is not less returns `current` at the
\* level the search is on
RECURSIVE find_less_than_loop(_, _, _, _)
find_less_than_loop(list, key, current, level) ==
    LET next == NodeSkips(list, current, level)
    IN IF next # NIL
       THEN IF KeyCompare(NodeKey(list, next), key) < 0
            THEN find_less_than_loop(list, key, next, level)
            ELSE current
       ELSE IF level = 0 THEN current
       ELSE find_less_than_loop(list, key, current, level - 1)

find_less_than(list, key) == find_less_than_loop(list, key, HEAD, MAX_HEIGHT - 1)

\* SkipListIter::prev
SkipListIter_prev(list, current) == find_less_than(list, NodeKey(list, current))

PrevInsert ==
    /\ sl.pc = "idle"
    /\ Len(sl.list.nodes) < MaxSkipNodes
    /\ \E key \in SkipKeys \ Inserted(sl), new_height \in NewHeights :
          sl' = NoInsert(insert(sl.list, key, new_height).list)
    /\ slit' = NoSkipIter
    /\ UNCHANGED exceptSkip

PrevSeek ==
    /\ \E target \in SkipKeys :
          slit' = Started(SkipListIter_seek(sl.list, target), {})
    /\ UNCHANGED <<sl, exceptSkip>>

\* prev on a cursor that is on an entry
PrevPrev ==
    /\ slit.current \in 1..Len(sl.list.nodes)
    /\ slit' = [slit EXCEPT !.current = SkipListIter_prev(sl.list, slit.current),
                            !.seen = <<>>]
    /\ UNCHANGED <<sl, exceptSkip>>

PrevNext == PrevInsert \/ PrevSeek \/ PrevPrev

SpecPrev == SkipInit /\ [][PrevNext]_vars

\* the node holding the greatest key less than `key`, NIL when there is none
GreatestLess(list, key) ==
    LET less == {i \in 1..Len(list.nodes) : KeyCompare(NodeKey(list, i), key) < 0}
    IN IF less = {} THEN NIL
       ELSE CHOOSE i \in less :
                \A j \in less : KeyCompare(NodeKey(list, j), NodeKey(list, i)) <= 0

\* C33: for every content of the skip list and every height of its nodes,
\* prev moves a cursor from an entry to the entry with the greatest key
\* less than the cursor's, and from the first entry it leaves the cursor
\* invalid; it never lands on the head or on an entry farther back.
C33_PrevIsPredecessor ==
    [][PrevPrev =>
          slit'.current = GreatestLess(sl.list, NodeKey(sl.list, slit.current))]_vars

(***************************************************************************)
(* block.rs : BlockIter::prev (228-245).  SpecBlockPrev: a block is built  *)
(* and finished as in SpecBlock, its iterator is moved forward onto an     *)
(* entry by seek_to_first and next, and prev is called there.              *)
(***************************************************************************)
\* the first loop of prev: back over the restart points that are not before
\* `origin`.  At restart_index 0 the code sets current and restart_index to
\* their past-the-end values and does not return: the decrement that follows
\* gives num_restarts - 1 and the loop goes on.  `wrapped` says that this has
\* happened; a second arrival at 0 repeats the first for ever.  [st, index]
RECURSIVE prev_restart_loop(_, _, _, _)
prev_restart_loop(it, origin, restart_index, wrapped) ==
    IF ~(restart_index < it.num_restarts) THEN [st |-> "panic", index |-> restart_index]
    ELSE IF ~(get_restart_point(it, restart_index) >= origin)
    THEN [st |-> "ok", index |-> restart_index]
    ELSE IF restart_index = 0
    THEN IF wrapped THEN [st |-> "hang", index |-> restart_index]
         ELSE prev_restart_loop(it, origin, it.num_restarts - 1, TRUE)
    ELSE prev_restart_loop(it, origin, restart_index - 1, wrapped)

\* the second loop of prev: forward to the entry that ends at `origin`
RECURSIVE prev_scan(_, _)
prev_scan(it, origin) ==
    Only({IF ~p.more \/ next_entry_offset(p.it) >= origin THEN p.it
          ELSE prev_scan(p.it, origin)
          : p \in {parse_next_entry(it)}})

BlockIter_prev(it) ==
    IF ~BlockIter_valid(it) THEN [it EXCEPT !.st = "panic"]
    ELSE Only({IF back.st # "ok" THEN [it EXCEPT !.st = back.st]
               ELSE Only({IF it1.st # "ok" THEN it1 ELSE prev_scan(it1, it.current)
                          : it1 \in {seek_to_restart_point(it, back.index)}})
               : back \in {prev_restart_loop(it, it.current, it.restart_index, FALSE)}})

BlkPrev ==
    /\ blk.phase = "open" /\ blk.it.st = "ok"
    /\ BlockIter_valid(blk.it)
    /\ blk' = [blk EXCEPT !.it = BlockIter_prev(blk.it), !.mode = "prev", !.target = <<>>]
    /\ UNCHANGED <<table, titer>>
    /\ UNCHANGED <<logVars, memVars, mergeVars, dbVars, restVars>>

BlockPrevNext == BlkAdd \/ BlkFinish \/ BlkSeekToFirst \/ BlkNext \/ BlkPrev

SpecBlockPrev == BlockInit /\ [][BlockPrevNext]_vars

\* the place in the stream of the entry the iterator is on
StreamIndex(stream, it) ==
    CHOOSE i \in 1..Len(stream) : stream[i].key = BlockIter_key(it)

\* C34: prev on a block iterator that is on an entry terminates; it moves
\* to the entry just before, and from the first entry it leaves the
\* iterator invalid.
C34_BlockPrevTerminates ==
    [][BlkPrev =>
          /\ blk'.it.st = "ok"
          /\ IF StreamIndex(blk.stream, blk.it) = 1
             THEN ~BlockIter_valid(blk'.it)
             ELSE /\ BlockIter_valid(blk'.it)
                  /\ BlockIter_key(blk'.it) =
                         blk.stream[StreamIndex(blk.stream, blk.it) - 1].key
                  /\ BlockIter_value(blk'.it) =
                         blk.stream[StreamIndex(blk.stream, blk.it) - 1].value]_vars

(***************************************************************************)
(* C35: after any sequence of insert, lookup and erase calls, the insert   *)
(* of a key the shard already holds among them, the usage of every shard   *)
(* is the sum of the charges of the entries it holds.                      *)
(***************************************************************************)
C35_UsageIsSumOfCharges ==
    \A i \in DOMAIN cache.shards :
        cache.shards[i].usage = TotalCharge(cache.shards[i].lru)

(***************************************************************************)
(* table_cache.rs : TableCache::find_table (32-53).  The directory is the  *)
(* numbers of the files NNNNNN.ldb and of the files NNNNNN.sst; a call is  *)
(* recorded with the files it asked the environment to open, in order.     *)
(* SpecTableCache: find_table called repeatedly over every such directory. *)
(***************************************************************************)
\* TableCache::open_table_file: [ok, opened], the names tried
open_table_file(t, file_number) ==
    IF file_number \in t.ldb THEN [ok |-> TRUE, opened |-> <<"ldb">>]
    ELSE [ok |-> file_number \in t.sst, opened |-> <<"ldb", "sst">>]

\* TableCache::find_table, table_ok whether Table::open accepts the file
find_table(t, file_number, table_ok) ==
    Only({[number |-> file_number, opened |-> f.opened,
           res |-> IF f.ok /\ table_ok THEN "Ok" ELSE "Err"]
          : f \in {open_table_file(t, file_number)}})

MaxFindCalls == 3

TableNumbers == {4, 5}

TableCacheInit ==
    /\ CoreIdle /\ StateIdle /\ CmpIdle /\ BloomIdle /\ CacheIdle /\ CodecIdle /\ ImmIdle
    /\ VersionIdle
    /\ \E ldb \in SUBSET TableNumbers, sst \in SUBSET TableNumbers :
          tc = [NoTableCache EXCEPT !.ldb = ldb, !.sst = sst]

FindTable ==
    /\ Len(tc.calls) < MaxFindCalls
    /\ \E file_number \in TableNumbers, table_ok \in BOOLEAN :
          tc' = [tc EXCEPT !.calls = Append(@, find_table(tc, file_number, table_ok))]
    /\ UNCHANGED exceptTableCache

TableCacheNext == FindTable

SpecTableCache == TableCacheInit /\ [][TableCacheNext]_vars

\* C36: find_table opens the file of a table only when the table is not in
\* the cache: after a call for a file number has returned the table, a later
\* call for that number opens no file (nothing is evicted between them);
\* and a call that opens tries NNNNNN.ldb first and NNNNNN.sst only when
\* that fails.
C36_TableOpenedOnce ==
    /\ \A i, j \in 1..Len(tc.calls) :
          i < j /\ tc.calls[i].number = tc.calls[j].number /\ tc.calls[i].res = "Ok"
              => tc.calls[j].opened = <<>>
    /\ \A i \in 1..Len(tc.calls) :
          /\ tc.calls[i].opened \in {<<>>, <<"ldb">>, <<"ldb", "sst">>}
          /\ tc.calls[i].opened = <<"ldb", "sst">> => tc.calls[i].number \notin tc.ldb

(***************************************************************************)
(* version_set.rs : VersionSet::finalize (124-146); version.rs :           *)
(* max_bytes_for_level (229-241).  File sizes and byte limits are counted  *)
(* in MiB.  A score is a fraction <<numerator, denominator>> with a        *)
(* positive denominator, compared as the f64 quotients are.  The level-0   *)
(* trigger, consts::L0_COMPACTION_TRIGGER, is a parameter of the Version   *)
(* under test.                                                             *)
(***************************************************************************)
ScoreGreater(a, b) == a[1] * b[2] > b[1] * a[2]

ScoreEqual(a, b) == a[1] * b[2] = b[1] * a[2]

\* Version::level_total_file_size
RECURSIVE total_file_size(_)
total_file_size(files) ==
    IF files = <<>> THEN 0 ELSE Head(files).file_size + total_file_size(Tail(files))

RECURSIVE max_bytes_for_level(_)
max_bytes_for_level(level) ==
    IF level > 1 THEN 10 * max_bytes_for_level(level - 1) ELSE 10

\* the score finalize computes for a level: for level 0 the integer quotient
\* of version.files.len(), the number of levels, by the trigger
finalize_score(files, trigger, level) ==
    IF level = 0 THEN <<NUM_LEVELS \div trigger, 1>>
    ELSE <<total_file_size(files[level]), max_bytes_for_level(level)>>

\* the fold of finalize over the levels from `level` on: [level, score]
RECURSIVE finalize_fold(_, _, _, _)
finalize_fold(files, trigger, level, best) ==
    IF level >= NUM_LEVELS - 1 THEN best
    ELSE finalize_fold(files, trigger, level + 1,
             IF ScoreGreater(finalize_score(files, trigger, level), best.score)
             THEN [level |-> level, score |-> finalize_score(files, trigger, level)]
             ELSE best)

\* VersionSet::finalize: [level, score], compaction_level and compaction_score
finalize(files, trigger) ==
    finalize_fold(files, trigger, 0, [level |-> -1, score |-> <<-1, 1>>])

(***************************************************************************)
(* version.rs : Version::pick_level_for_memtable_output (104-134) with     *)
(* get_overlapping_inputs, overlap_in_level, some_file_overlaps_range,     *)
(* before_file and after_file.  User keys are integers in the order of the *)
(* comparator; both keys of the range are Some, as write_level0_table      *)
(* passes them.                                                            *)
(***************************************************************************)
\* the cap on the level a flushed memtable is pushed down to
MAX_MEM_COMPACT_LEVEL == 2

\* grand_parent_overlap_bytes: 10 * max_file_size, the default 2 MiB
GrandParentOverlapBytes == 20

before_file(user_key, file) == user_key < file.smallest

after_file(user_key, file) == user_key > file.largest

\* binary_search_by on the largest keys of sorted files: the number of files
\* whose largest key is less than k, the index (from 0) of the first other
binary_search_largest(files, k) ==
    Cardinality({i \in 1..Len(files) : files[i].largest < k})

some_file_overlaps_range(disjoint_sorted_files, files, smallest, largest) ==
    IF ~disjoint_sorted_files
    THEN \E i \in 1..Len(files) :
            ~(before_file(smallest, files[i]) \/ after_file(largest, files[i]))
    ELSE IF binary_search_largest(files, smallest) >= Len(files) THEN FALSE
    ELSE ~before_file(largest, files[binary_search_largest(files, smallest) + 1])

overlap_in_level(files, level, smallest, largest) ==
    some_file_overlaps_range(level > 0, files[level], smallest, largest)

\* get_overlapping_inputs at a level above 0: the files that are neither
\* after `end` nor before `begin`, pushed onto `input`
get_overlapping_inputs(files, level, begin, end, input) ==
    input \o SelectSeq(files[level],
                       LAMBDA f : ~before_file(end, f) /\ ~after_file(begin, f))

\* the while loop of pick_level_for_memtable_output; start and limit are
\* both built from smallest_user_key, and `overlaps` is never cleared
RECURSIVE pick_level_loop(_, _, _, _, _)
pick_level_loop(files, smallest, largest, level, overlaps) ==
    IF ~(level < MAX_MEM_COMPACT_LEVEL) THEN level
    ELSE IF overlap_in_level(files, level + 1, smallest, largest) THEN level
    ELSE IF level + 2 < NUM_LEVELS
    THEN Only({IF total_file_size(o) > GrandParentOverlapBytes THEN level
               ELSE pick_level_loop(files, smallest, largest, level + 1, o)
               : o \in {get_overlapping_inputs(files, level + 2, smallest, smallest,
                                               overlaps)}})
    ELSE pick_level_loop(files, smallest, largest, level + 1, overlaps)

pick_level_for_memtable_output(files, smallest, largest) ==
    IF overlap_in_level(files, 0, smallest, largest) THEN 0
    ELSE pick_level_loop(files, smallest, largest, 0, <<>>)

(***************************************************************************)
(* SpecVersion: a Version whose levels above 0 are sorted and disjoint,    *)
(* finalized, or asked for the level of a flushed memtable's table.        *)
(***************************************************************************)
File(number, smallest, largest, file_size) ==
    [number |-> number, smallest |-> smallest, largest |-> largest,
     file_size |-> file_size]

Level0Files ==
    {<<>>, <<File(11, 3, 4, 1)>>, <<File(11, 3, 4, 1), File(12, 1, 8, 1)>>,
     <<File(11, 3, 4, 1), File(12, 1, 8, 1), File(13, 5, 6, 1), File(14, 7, 8, 1)>>}

Level1Files == {<<>>, <<File(21, 5, 6, 12)>>, <<File(21, 1, 2, 4), File(22, 7, 8, 4)>>}

Level2Files == {<<>>, <<File(31, 1, 2, 4), File(32, 3, 4, 18)>>, <<File(31, 5, 6, 120)>>}

Level3Files == {<<>>, <<File(41, 1, 2, 12), File(42, 3, 4, 12)>>}

VersionFiles ==
    {[l \in Levels |-> IF l = 0 THEN f0 ELSE IF l = 1 THEN f1 ELSE IF l = 2 THEN f2
                       ELSE IF l = 3 THEN f3 ELSE <<>>]
     : f0 \in Level0Files, f1 \in Level1Files, f2 \in Level2Files, f3 \in Level3Files}

L0Triggers == {1, 4}

\* the ranges [smallest, largest] of a flushed memtable
MemtableRanges == {<<1, 2>>, <<1, 4>>, <<2, 7>>, <<5, 5>>, <<9, 9>>}

VersionInit ==
    /\ CoreIdle /\ StateIdle /\ CmpIdle /\ BloomIdle /\ CacheIdle /\ CodecIdle /\ ImmIdle
    /\ TableCacheIdle
    /\ \E files \in VersionFiles, trigger \in L0Triggers :
          ver = [NoVersionCall EXCEPT !.files = files, !.trigger = trigger]

Finalize ==
    /\ ver.op = "none"
    /\ ver' = [ver EXCEPT !.op = "finalize", !.res = finalize(ver.files, ver.trigger)]
    /\ UNCHANGED exceptVersion

PickLevel ==
    /\ ver.op = "none"
    /\ \E range \in MemtableRanges :
          ver' = [ver EXCEPT !.op = "pick_level",
                             !.res = [level |-> pick_level_for_memtable_output(
                                                    ver.files, range[1], range[2]),
                                      score |-> range]]
    /\ UNCHANGED exceptVersion

VersionNext == Finalize \/ PickLevel

SpecVersion == VersionInit /\ [][VersionNext]_vars

\* the score the levels should have: level 0 by its number of files
ExpectedScore(files, trigger, level) ==
    IF level = 0 THEN <<Len(files[0]), trigger>>
    ELSE <<total_file_size(files[level]), max_bytes_for_level(level)>>

\* C37: finalize scores level 0 with its number of files divided by the
\* level-0 trigger and a level L >= 1 with its total bytes divided by
\* max_bytes_for_level(L); the level it marks for compaction has the
\* highest of these scores, a score of at least 1, and that score is the
\* Version's compaction score.
C37_FinalizeScores ==
    ver.op = "finalize" /\ ver.res.level # -1 =>
        /\ ScoreEqual(ver.res.score, ExpectedScore(ver.files, ver.trigger, ver.res.level))
        /\ \A l \in 0..(NUM_LEVELS - 2) :
              ~ScoreGreater(ExpectedScore(ver.files, ver.trigger, l),
                            ExpectedScore(ver.files, ver.trigger, ver.res.level))
        /\ ~ScoreGreater(<<1, 1>>, ExpectedScore(ver.files, ver.trigger, ver.res.level))

\* a file holds a key of the range [smallest, largest]
OverlapsRange(f, smallest, largest) == f.smallest <= largest /\ f.largest >= smallest

\* the files of a level that overlap the range
OverlappingFiles(files, level, smallest, largest) ==
    SelectSeq(files[level], LAMBDA f : OverlapsRange(f, smallest, largest))

\* C38: pick_level_for_memtable_output(smallest, largest) returns a level L
\* not above the cap; when L > 0 no file of the levels 0..L overlaps
\* [smallest, largest], and the files of level L + 1 that overlap it have a
\* total size within the grandparent-overlap limit.
C38_PickedLevelIsFree ==
    ver.op = "pick_level" =>
        /\ ver.res.level \in 0..MAX_MEM_COMPACT_LEVEL
        /\ ver.res.level > 0 =>
              /\ \A l \in 0..ver.res.level :
                    OverlappingFiles(ver.files, l, ver.res.score[1], ver.res.score[2]) = <<>>
              /\ total_file_size(OverlappingFiles(ver.files, ver.res.level + 1,
                                                  ver.res.score[1], ver.res.score[2]))
                    <= GrandParentOverlapBytes

(***************************************************************************)
(* C39: a two-level iterator scanned forward from seek_to_first yields the *)
(* entries of the inner iterators concatenated in index order, passes over *)
(* the empty inner iterators, and is invalid after the last entry of the   *)
(* last inner iterator that has one.                                       *)
(***************************************************************************)
C39_ScanIsConcatenation ==
    titer.mode = "scan" =>
        /\ titer.it.st = "ok"
        /\ Len(titer.scan) <= Len(table.stream)
        /\ titer.scan = SubSeq(table.stream, 1, Len(titer.scan))
        /\ TwoLevel_valid(titer.it) => titer.scan # <<>> /\ Entry(titer.it) = Last(titer.scan)
        /\ ~TwoLevel_valid(titer.it) => titer.scan = table.stream

\* the data block of chunk i of the file has no entry
EmptyInner(i) ==
    table.tb.file[i].data = BlockBuilder_finish(BlockBuilderNew(table.tb.block_restart_interval))

\* a finished scan of a file whose second data block is empty and lies
\* between two data blocks that have entries
C39_Witness_SkippedEmptyBlocks ==
    /\ titer.mode = "scan" /\ titer.it.st = "ok" /\ ~TwoLevel_valid(titer.it)
    /\ Len(table.tb.file) = 3
    /\ ~EmptyInner(1) /\ EmptyInner(2) /\ ~EmptyInner(3)
    /\ titer.scan = table.stream /\ Len(titer.scan) >= 2

(***************************************************************************)
(* C40: after memtable adds with pairwise distinct (user key, sequence), a *)
(* forward scan by seek_to_first and next visits every added entry exactly *)
(* once, by user key ascending and, within one user key, by sequence       *)
(* descending, so that the newest version of a key comes first.            *)
(***************************************************************************)
\* the entry held by a node of the memtable's list
SeenEntry(k) ==
    [ukey |-> k.ukey, seq |-> TagSeq(k.tag), t |-> TagType(k.tag), value |-> k.value]

\* entry a comes before entry b in a scan
ScansBefore(a, b) ==
    \/ BytesCmp(a.ukey, b.ukey) = -1
    \/ BytesCmp(a.ukey, b.ukey) = 0 /\ a.seq > b.seq

C40_ScanVisitsAllInOrder ==
    /\ \A key \in MemKeys, seq \in MemSeqs, t \in {Value, Deletetion}, h \in NewHeights :
          <<key, seq>> \notin AddedPairs
              => ~MemTable_add(mem, seq, t, key, <<>>, h).panic
    /\ slit.started =>
          /\ \A i \in 1..Len(slit.seen) : SeenEntry(slit.seen[i]) \in memadded
          /\ \A i \in 1..Len(slit.seen) : \A j \in (i + 1)..Len(slit.seen) :
                ScansBefore(SeenEntry(slit.seen[i]), SeenEntry(slit.seen[j]))
          /\ slit.current # NIL => slit.seen # <<>>
                                   /\ Last(slit.seen) = NodeKey(mem.table, slit.current)
          /\ slit.current = NIL =>
                {SeenEntry(slit.seen[i]) : i \in 1..Len(slit.seen)} = memadded

\* a finished scan of three entries, two of them versions of one user key
\* with the older one added first, and a longer user key added before both
C40_Witness_NewestFirst ==
    /\ slit.started /\ slit.current = NIL
    /\ Len(slit.seen) = 3
    /\ slit.seen[1].ukey = slit.seen[2].ukey
    /\ TagSeq(slit.seen[1].tag) > TagSeq(slit.seen[2].tag)
    /\ Len(mem.table.nodes) = 3
    /\ mem.table.nodes[1].key = slit.seen[3]
    /\ mem.table.nodes[2].key = slit.seen[2]

=============================================================================
